---- MODULE Spec2Model ----
(***************************************************************************)
(* A model of the knowledge-graph core of Bhindi_mem:                      *)
(*   GraphManager  (src/src/graph_manager.py)  - the graph store, backed   *)
(*                  by Neo4j or, when the connection fails, by an         *)
(*                  in-memory list of node dictionaries ("demo mode");    *)
(*   CRUDExecutor  (src/src/crud_executor.py)  - the intent executor.      *)
(*                                                                         *)
(* A node is its property map (a function from keys to values): the name   *)
(* and the type of a node are ordinary keys of that map, as they are in    *)
(* Neo4j and in the demo dictionaries.  All values are strings.            *)
(***************************************************************************)
EXTENDS Integers, Sequences, FiniteSets, TLC

VARIABLES
    driver,              \* TRUE: a Neo4j driver is connected; FALSE: demo mode
    nodes,               \* backend: node id -> property map
    edges,               \* backend: set of [src, dst, type, props]
    demo_nodes,          \* demo mode: self._demo_nodes, a list of dictionaries
    demo_relationships,  \* demo mode: self._demo_relationships
    last                 \* the last call made on the store or the executor

vars == <<driver, nodes, edges, demo_nodes, demo_relationships, last>>

-----------------------------------------------------------------------------
(* Bounds of the model *)

MaxGraphSize == 3
MaxExecGraphSize == 4
MaxFaultAt == 2

-----------------------------------------------------------------------------
(* Values *)

Null == "null"                  \* Python None / Cypher null
Ts == "ts"                      \* datetime() / 'demo_timestamp'
EmptyMap == <<>>

\* dict.update / {**a, **b}: the keys of b win
Merge(a, b) == b @@ a

SetKey(a, k, v) == (k :> v) @@ a

Restrict(a, keys) == [x \in keys |-> a[x]]

\* Cypher  SET x += $map : keys of the map win, a null value removes the key
CypherSetPlusEq(a, b) ==
    LET m == Merge(a, b)
    IN  Restrict(m, {x \in DOMAIN m : m[x] # Null})

HasName(n, name) == "name" \in DOMAIN n /\ n["name"] = name

HasType(n, node_type) == "type" \in DOMAIN n /\ n["type"] = node_type

\* str.lower() on the names of the model
Lower(s) ==
    CASE s = "User" -> "user"
      [] s = "Guitar" -> "guitar"
      [] s = "Me" -> "me"
      [] s = "I" -> "i"
      [] s = "Thing" -> "thing"
      [] OTHER -> s

\* str.strip() on the names of the model
Strip(s) == IF s = " " THEN "" ELSE s

-----------------------------------------------------------------------------
(* The store as a value: the operations below are functions of it *)

\* fault: the backend raises inside the fault-th call made on the store from
\* now on (0: it raises in none); the store catches it inside that call
Store == [driver |-> driver, nodes |-> nodes, edges |-> edges,
          demo_nodes |-> demo_nodes, demo_relationships |-> demo_relationships,
          fault |-> 0]

\* The backend raises inside the call that is made on S now
Failing(S) == S.driver /\ S.fault = 1

\* The store after n more backend calls were made on it
Ticks(S, n) ==
    IF S.driver /\ S.fault > 0
    THEN [S EXCEPT !.fault = IF @ > n THEN @ - n ELSE 0]
    ELSE S

Tick(S) == Ticks(S, 1)

\* except Exception: ... return False
Failed(S) == [s |-> Tick(S), ret |-> FALSE]

\* GraphManager.connect
connect(ok) ==
    [driver |-> ok, nodes |-> EmptyMap, edges |-> {},
     demo_nodes |-> <<>>, demo_relationships |-> <<>>, fault |-> 0]

Matching(S, name) == {i \in DOMAIN S.nodes : HasName(S.nodes[i], name)}

NewId(ns) == CHOOSE i \in 1..(Cardinality(DOMAIN ns) + 1) :
                 /\ i \notin DOMAIN ns
                 /\ \A j \in 1..(i - 1) : j \in DOMAIN ns

\* _demo_create_or_update_node: first dictionary with the name, else append
DemoIndex(S, name) ==
    {i \in 1..Len(S.demo_nodes) :
        /\ HasName(S.demo_nodes[i], name)
        /\ \A j \in 1..(i - 1) : ~HasName(S.demo_nodes[j], name)}

demo_create_or_update_node(S, name, node_type, properties) ==
    LET hit == DemoIndex(S, name)
    IN  IF hit # {}
        THEN LET i == CHOOSE x \in hit : TRUE
                 upd == SetKey(Merge(("type" :> node_type), properties),
                               "updated_at", Ts)
             IN  [s |-> [S EXCEPT !.demo_nodes[i] = Merge(@, upd)], ret |-> TRUE]
        ELSE LET new == SetKey(Merge(("name" :> name) @@ ("type" :> node_type),
                                     properties),
                               "created_at", Ts)
             IN  [s |-> [S EXCEPT !.demo_nodes = Append(@, new)], ret |-> TRUE]

\* The Cypher of create_or_update_node applied to one bound node
MergeSetNode(n, node_type, properties) ==
    SetKey(CypherSetPlusEq(CypherSetPlusEq(n, "type" :> node_type),
                           properties),
           "updated_at", Ts)

create_or_update_node(S, name, node_type, properties) ==
    IF ~S.driver
    THEN demo_create_or_update_node(S, name, node_type, properties)
    ELSE IF Failing(S) THEN Failed(S)
    ELSE LET found == Matching(S, name)
             base == IF found # {} THEN S.nodes
                     ELSE (NewId(S.nodes) :> ("name" :> name)) @@ S.nodes
             bound == IF found # {} THEN found ELSE {NewId(S.nodes)}
         IN  [s |-> [Tick(S) EXCEPT !.nodes =
                        [i \in DOMAIN base |->
                            IF i \in bound
                            THEN MergeSetNode(base[i], node_type, properties)
                            ELSE base[i]]],
              ret |-> TRUE]

\* config.RELATIONSHIP_TYPES
RELATIONSHIP_TYPES ==
    {"KNOWS", "LIKES", "DISLIKES", "WORKS_AT", "LIVES_IN", "ATTENDED",
     "SKILLED_IN", "WANTS_TO", "REMEMBERS", "RELATED_TO", "PART_OF",
     "CREATED", "LEARNED"}

\* Type strings with which the query text  -[r:%s]->  is no Cypher: the
\* backend raises a syntax error when it is run
MalformedTypes == {"", "NOT A TYPE"}

\* A variant of MergeSetEdge that replaces the properties of the edge
\* (SET r = $properties in place of SET r += $properties)
MergeSetEdge_replace(es, a, b, rel_type, properties) ==
    LET old == {e \in es : e.src = a /\ e.dst = b /\ e.type = rel_type}
        new == SetKey(CypherSetPlusEq(EmptyMap, properties), "created_at", Ts)
    IN  (es \ old) \cup {[src |-> a, dst |-> b, type |-> rel_type,
                          props |-> new]}

\* The Cypher of create_relationship applied to one bound (a, b) pair
MergeSetEdge(es, a, b, rel_type, properties) ==
    LET old == {e \in es : e.src = a /\ e.dst = b /\ e.type = rel_type}
        upd(p) == SetKey(CypherSetPlusEq(p, properties), "created_at", Ts)
    IN  IF old # {}
        THEN (es \ old) \cup {[e EXCEPT !.props = upd(@)] : e \in old}
        ELSE es \cup {[src |-> a, dst |-> b, type |-> rel_type,
                       props |-> upd(EmptyMap)]}

RECURSIVE MergeSetEdges(_, _, _, _)
MergeSetEdges(es, pairs, rel_type, properties) ==
    IF pairs = {} THEN es
    ELSE LET pr == CHOOSE x \in pairs : TRUE
         IN  MergeSetEdges(MergeSetEdge(es, pr[1], pr[2], rel_type, properties),
                           pairs \ {pr}, rel_type, properties)

\* A variant of create_relationship that binds its endpoints with MERGE in
\* place of MATCH, and so creates the node a name does not find
create_relationship_merge_ends(S, from_node, to_node, rel_type, properties) ==
    IF ~S.driver
    THEN [s |-> S, ret |-> FALSE]
    ELSE LET named(T, name) ==
                 IF Matching(T, name) # {} THEN T
                 ELSE [T EXCEPT !.nodes = (NewId(@) :> ("name" :> name)) @@ @]
             T == named(named(S, from_node), to_node)
             pairs == Matching(T, from_node) \X Matching(T, to_node)
         IN  [s |-> [T EXCEPT !.edges =
                        MergeSetEdges(@, pairs, rel_type, properties)],
              ret |-> TRUE]

create_relationship(S, from_node, to_node, rel_type, properties) ==
    IF ~S.driver
    THEN [s |-> S, ret |-> FALSE]
    ELSE IF Failing(S) \/ rel_type \in MalformedTypes THEN Failed(S)
    ELSE LET pairs == Matching(S, from_node) \X Matching(S, to_node)
         IN  [s |-> [Tick(S) EXCEPT !.edges =
                        MergeSetEdges(@, pairs, rel_type, properties)],
              ret |-> pairs # {}]

\* get_node: the dictionaries result.single() may return; {} stands for None
get_node(S, name) ==
    IF ~S.driver \/ Failing(S) THEN {}
    ELSE {S.nodes[i] : i \in Matching(S, name)}

\* A variant of update_node_properties that merges the node, as
\* create_or_update_node does, and so creates it when the name is absent
update_node_properties_merge(S, name, properties) ==
    create_or_update_node(S, name, "Entity", properties)

update_node_properties(S, name, properties) ==
    IF ~S.driver
    THEN [s |-> S, ret |-> FALSE]
    ELSE IF Failing(S) THEN Failed(S)
    ELSE LET found == Matching(S, name)
         IN  [s |-> [Tick(S) EXCEPT !.nodes =
                        [i \in DOMAIN @ |->
                            IF i \in found
                            THEN SetKey(CypherSetPlusEq(@[i], properties),
                                        "updated_at", Ts)
                            ELSE @[i]]],
              ret |-> found # {}]

delete_node(S, name) ==
    IF ~S.driver
    THEN [s |-> S, ret |-> FALSE]
    ELSE IF Failing(S) THEN Failed(S)
    ELSE LET found == Matching(S, name)
         IN  [s |-> [Tick(S) EXCEPT
                        !.nodes = Restrict(@, DOMAIN @ \ found),
                        !.edges = {e \in @ : e.src \notin found
                                                /\ e.dst \notin found}],
              ret |-> TRUE]

delete_relationship(S, from_node, to_node, rel_type) ==
    IF ~S.driver
    THEN [s |-> S, ret |-> FALSE]
    ELSE IF Failing(S) \/ rel_type \in MalformedTypes THEN Failed(S)
    ELSE [s |-> [Tick(S) EXCEPT !.edges =
                    {e \in @ : ~(/\ e.src \in Matching(S, from_node)
                                 /\ e.dst \in Matching(S, to_node)
                                 /\ e.type = rel_type)}],
          ret |-> TRUE]

-----------------------------------------------------------------------------
(* Read primitives *)

\* Cypher ORDER BY n.name over the names of the model (code-point order)
NameOrder == <<"", " ", "Guitar", "I", "Me", "Thing", "User",
               "guitar", "i", "me", "thing", "user">>

NameRank(n) ==
    IF "name" \notin DOMAIN n THEN Len(NameOrder) + 1
    ELSE CHOOSE k \in 1..Len(NameOrder) : NameOrder[k] = n["name"]

\* The orders in which a query with ORDER BY n.name may return the nodes ids
SortedIdSeqs(S, ids) ==
    {f \in [1..Cardinality(ids) -> ids] :
        /\ \A a, b \in 1..Cardinality(ids) : a # b => f[a] # f[b]
        /\ \A a, b \in 1..Cardinality(ids) :
              a < b => NameRank(S.nodes[f[a]]) <= NameRank(S.nodes[f[b]])}

\* The rows (n)-[r]-(connected) of one node: a self-loop is matched once
RelsOf(S, i) ==
    {[type |-> e.type, properties |-> e.props,
      connected_node |-> S.nodes[e.dst], direction |-> "outgoing"] :
        e \in {x \in S.edges : x.src = i}}
    \cup
    {[type |-> e.type, properties |-> e.props,
      connected_node |-> S.nodes[e.src], direction |-> "incoming"] :
        e \in {x \in S.edges : x.dst = i /\ x.src # i}}

\* get_node_with_relationships: the values it may return; {} stands for None
get_node_with_relationships(S, name) ==
    IF ~S.driver \/ Failing(S) THEN {}
    ELSE {[node |-> S.nodes[i], relationships |-> RelsOf(S, i)] :
             i \in Matching(S, name)}

\* get_nodes_by_type: the lists it may return
get_nodes_by_type(S, node_type) ==
    IF ~S.driver \/ Failing(S) THEN {<<>>}
    ELSE LET ids == {i \in DOMAIN S.nodes : HasType(S.nodes[i], node_type)}
         IN  {[k \in 1..Cardinality(ids) |-> S.nodes[f[k]]] :
                 f \in SortedIdSeqs(S, ids)}

\* get_all_nodes: the lists it may return
get_all_nodes(S) ==
    IF ~S.driver \/ Failing(S) THEN {<<>>}
    ELSE {[k \in 1..Cardinality(DOMAIN S.nodes) |-> S.nodes[f[k]]] :
             f \in SortedIdSeqs(S, DOMAIN S.nodes)}

\* The substrings of the lower-cased names of the model
Fragments(s) ==
    CASE s = "user" ->
           {"", "e", "r", "s", "u", "er", "se", "us", "ser", "use", "user"}
      [] s = "guitar" ->
           {"", "a", "g", "i", "r", "t", "u", "ar", "gu", "it", "ta", "ui",
           "gui", "ita", "tar", "uit", "guit", "itar", "uita",
           "guita", "uitar", "guitar"}
      [] OTHER -> {"", s}

\* toLower(n.name) CONTAINS toLower($search_term)
NameContains(n, search_term) ==
    "name" \in DOMAIN n /\ Lower(search_term) \in Fragments(Lower(n["name"]))

\* LIMIT 20 of search_nodes_by_name
SearchLimit == 20

\* search_nodes_by_name: the lists it may return
search_nodes_by_name(S, search_term) ==
    IF ~S.driver \/ Failing(S) THEN {<<>>}
    ELSE LET ids == {i \in DOMAIN S.nodes : NameContains(S.nodes[i], search_term)}
             n == IF Cardinality(ids) < SearchLimit THEN Cardinality(ids)
                  ELSE SearchLimit
         IN  {[k \in 1..n |-> S.nodes[f[k]]] : f \in SortedIdSeqs(S, ids)}

DemoType(n) == IF "type" \in DOMAIN n THEN n["type"] ELSE "Unknown"

get_graph_statistics(S) ==
    IF Failing(S) THEN [error |-> "backend"]
    ELSE IF ~S.driver
    THEN [nodes |-> Len(S.demo_nodes),
          relationships |-> Len(S.demo_relationships),
          node_types |->
              LET ts == {DemoType(S.demo_nodes[i]) : i \in 1..Len(S.demo_nodes)}
              IN  [t \in ts |-> Cardinality({i \in 1..Len(S.demo_nodes) :
                                        DemoType(S.demo_nodes[i]) = t})],
          relationship_types |-> EmptyMap]
    ELSE [nodes |-> Cardinality(DOMAIN S.nodes),
          relationships |-> Cardinality(S.edges),
          node_types |->
              LET typed == {i \in DOMAIN S.nodes : "type" \in DOMAIN S.nodes[i]}
                  ts == {S.nodes[i]["type"] : i \in typed}
              IN  [t \in ts |-> Cardinality({i \in typed :
                                        S.nodes[i]["type"] = t})],
          relationship_types |->
              LET ts == {e.type : e \in S.edges}
              IN  [t \in ts |-> Cardinality({e \in S.edges : e.type = t})]]

-----------------------------------------------------------------------------
(* CRUDExecutor.  Confidence is in hundredths: 0.3 is 30. *)

ConfidenceThreshold == 30

generic_names == {"thing", "stuff", "something", "anything", "everything"}

protected_names == {"user", "me", "i"}

\* A variant of should_process_entity whose confidence floor is exclusive
should_process_entity_exclusive(entity) ==
    IF entity.confidence <= ConfidenceThreshold THEN FALSE
    ELSE IF entity.name = Null \/ entity.name = ""
            \/ Strip(entity.name) = "" THEN FALSE
    ELSE IF Lower(entity.name) \in generic_names THEN FALSE
    ELSE TRUE

should_process_entity(entity) ==
    IF entity.confidence < ConfidenceThreshold THEN FALSE
    ELSE IF entity.name = Null \/ entity.name = ""
            \/ Strip(entity.name) = "" THEN FALSE
    ELSE IF Lower(entity.name) \in generic_names THEN FALSE
    ELSE TRUE

should_process_relationship(relationship) ==
    IF relationship.confidence < ConfidenceThreshold THEN FALSE
    ELSE IF \/ relationship.from_entity = Null \/ relationship.to_entity = Null
            \/ relationship.from_entity = "" \/ relationship.to_entity = ""
            \/ Strip(relationship.from_entity) = ""
            \/ Strip(relationship.to_entity) = "" THEN FALSE
    ELSE IF Lower(relationship.from_entity) = Lower(relationship.to_entity)
         THEN FALSE
    ELSE TRUE

\* One call on the store, as the executor makes it: the operation, its
\* arguments, and the candidate (kind, index in its list) it was made for
Call(op, a, b, t, p, kind, idx) ==
    [op |-> op, a |-> a, b |-> b, t |-> t, p |-> p, kind |-> kind, idx |-> idx]

EntityCall(op, e, p, idx) == Call(op, e.name, "", e.type, p, "entity", idx)

RelCall(op, r, p, idx) ==
    Call(op, r.from_entity, r.to_entity, r.type, p, "relationship", idx)

\* The state of a loop of the executor: the store, the counter, the calls
Acc(S) == [s |-> S, n |-> 0, calls |-> <<>>, error |-> ""]

Step(acc, r, call) ==
    [s |-> r.s, n |-> acc.n + (IF r.ret THEN 1 ELSE 0),
     calls |-> Append(acc.calls, call), error |-> acc.error]

result0(parsed) ==
    [intent |-> parsed.intent, success |-> FALSE, message |-> <<"">>,
     entities_processed |-> 0, relationships_processed |-> 0,
     data |-> [kind |-> "none"]]

Counted(parsed, verb, ne, nr) ==
    [result0(parsed) EXCEPT
        !.success = (ne > 0 \/ nr > 0),
        !.message = <<verb, ToString(ne), "entities and", ToString(nr),
                      "relationships">>,
        !.entities_processed = ne,
        !.relationships_processed = nr]

\* confidence as the parser hands it over when the extraction carries none
\* that is a number (null, a string): comparing it with 0.3 raises TypeError
NotANumber == -1

ConfidenceRaises(c) == c.confidence = NotANumber

\* The state of a loop of the executor: the store, the counter, the calls,
\* and the exception that ended it ("": none)
Continue(acc) == [Acc(acc.s) EXCEPT !.error = acc.error]

Ended(acc, seq, i) == i > Len(seq) \/ acc.error # ""

Raise(acc, text) == [acc EXCEPT !.error = text]

\* What a path hands back: the store, the result, the calls, the exception
Outcome(acc, result, calls) ==
    [s |-> acc.s, result |-> result, calls |-> calls, error |-> acc.error]

\* _execute_create, first loop
RECURSIVE create_entities(_, _, _)
create_entities(acc, entities, i) ==
    IF Ended(acc, entities, i) THEN acc
    ELSE LET e == entities[i]
         IN  IF ConfidenceRaises(e) THEN Raise(acc, "TypeError")
             ELSE IF should_process_entity(e)
             THEN create_entities(
                      Step(acc,
                           create_or_update_node(acc.s, e.name, e.type,
                                                 e.properties),
                           EntityCall("create_or_update_node", e,
                                      e.properties, i)),
                      entities, i + 1)
             ELSE create_entities(acc, entities, i + 1)

\* _execute_create, second loop
RECURSIVE create_relationships(_, _, _)
create_relationships(acc, relationships, i) ==
    IF Ended(acc, relationships, i) THEN acc
    ELSE LET r == relationships[i]
         IN  IF ConfidenceRaises(r) THEN Raise(acc, "TypeError")
             ELSE IF should_process_relationship(r)
             THEN create_relationships(
                      Step(acc,
                           create_relationship(acc.s, r.from_entity,
                                               r.to_entity, r.type,
                                               r.properties),
                           RelCall("create_relationship", r, r.properties, i)),
                      relationships, i + 1)
             ELSE create_relationships(acc, relationships, i + 1)

execute_create(S, parsed) ==
    LET ents == create_entities(Acc(S), parsed.entities, 1)
        rels == create_relationships(Continue(ents), parsed.relationships, 1)
    IN  {Outcome(rels, Counted(parsed, "Created", ents.n, rels.n),
                 ents.calls \o rels.calls)}

\* _execute_read: entity.name.lower() raises AttributeError on a name that is
\* None; the index of the first such candidate, 0 when there is none
FirstNullName(entities) ==
    IF \E i \in DOMAIN entities : entities[i].name = Null
    THEN CHOOSE i \in DOMAIN entities :
             /\ entities[i].name = Null
             /\ \A j \in 1..(i - 1) : entities[j].name # Null
    ELSE 0

\* _execute_read, first loop: the lists query_results may hold after it
RECURSIVE read_by_name(_, _, _)
read_by_name(S, entities, i) ==
    IF i > Len(entities) THEN {<<>>}
    ELSE LET e == entities[i]
             asked == Lower(e.name) # "user"
             rest == read_by_name(IF asked THEN Tick(S) ELSE S, entities, i + 1)
             got == get_node_with_relationships(S, e.name)
         IN  IF asked /\ got # {}
             THEN {<<d>> \o r : d \in got, r \in rest}
             ELSE rest

\* _execute_read, second loop: the lists it may add to query_results
RECURSIVE read_by_type(_, _, _)
read_by_type(S, entities, i) ==
    IF i > Len(entities) THEN {<<>>}
    ELSE LET e == entities[i]
             asked == e.type # "" /\ e.type # "Person"
             rest == read_by_type(IF asked THEN Tick(S) ELSE S, entities, i + 1)
         IN  IF asked
             THEN {l \o r : l \in get_nodes_by_type(S, e.type), r \in rest}
             ELSE rest

RECURSIVE read_name_calls(_, _)
read_name_calls(entities, i) ==
    IF i > Len(entities) THEN <<>>
    ELSE LET e == entities[i]
         IN  (IF Lower(e.name) # "user"
              THEN <<EntityCall("get_node_with_relationships", e, EmptyMap, i)>>
              ELSE <<>>) \o read_name_calls(entities, i + 1)

RECURSIVE read_type_calls(_, _)
read_type_calls(entities, i) ==
    IF i > Len(entities) THEN <<>>
    ELSE LET e == entities[i]
         IN  (IF e.type # "" /\ e.type # "Person"
              THEN <<EntityCall("get_nodes_by_type", e, EmptyMap, i)>>
              ELSE <<>>) \o read_type_calls(entities, i + 1)

Found(parsed, query_results) ==
    [result0(parsed) EXCEPT
        !.success = (Len(query_results) > 0),
        !.message = <<"Found", ToString(Len(query_results)), "results">>,
        !.data = [kind |-> "list", items |-> query_results],
        !.entities_processed = Len(query_results)]

\* A variant of execute_read whose second loop runs whatever the first
\* found
execute_read_always_by_type(S, parsed) ==
    IF parsed.entities = <<>> \/ FirstNullName(parsed.entities) # 0
    THEN {}
    ELSE LET ncalls == read_name_calls(parsed.entities, 1)
             tcalls == read_type_calls(parsed.entities, 1)
             T == Ticks(S, Len(ncalls))
         IN  {Outcome(Acc(Ticks(T, Len(tcalls))), Found(parsed, q \o r),
                      ncalls \o tcalls) :
                 q \in read_by_name(S, parsed.entities, 1),
                 r \in read_by_type(T, parsed.entities, 1)}

execute_read(S, parsed) ==
    IF parsed.entities = <<>>
    THEN {Outcome(Acc(Tick(S)),
                  [result0(parsed) EXCEPT
                      !.success = TRUE,
                      !.message = <<"Retrieved graph overview">>,
                      !.data = [kind |-> "stats",
                                stats |-> get_graph_statistics(S)]],
                  <<Call("get_graph_statistics", "", "", "", EmptyMap,
                         "none", 0)>>)}
    ELSE IF FirstNullName(parsed.entities) # 0
    THEN LET before == SubSeq(parsed.entities, 1,
                              FirstNullName(parsed.entities) - 1)
             ncalls == read_name_calls(before, 1)
         IN  {Outcome(Raise(Acc(Ticks(S, Len(ncalls))), "AttributeError"),
                      result0(parsed), ncalls)}
    ELSE LET named == read_by_name(S, parsed.entities, 1)
             ncalls == read_name_calls(parsed.entities, 1)
             tcalls == read_type_calls(parsed.entities, 1)
             T == Ticks(S, Len(ncalls))
         IN  IF named # {<<>>}
             THEN {Outcome(Acc(T), Found(parsed, q), ncalls) : q \in named}
             ELSE {Outcome(Acc(Ticks(T, Len(tcalls))), Found(parsed, q),
                           ncalls \o tcalls) :
                      q \in read_by_type(T, parsed.entities, 1)}

\* _execute_update, first loop
RECURSIVE update_entities(_, _, _)
update_entities(acc, entities, i) ==
    IF Ended(acc, entities, i) THEN acc
    ELSE LET e == entities[i]
             looked == [acc EXCEPT
                           !.s = Tick(@),
                           !.calls = Append(@, EntityCall("get_node", e,
                                                          EmptyMap, i))]
         IN  IF ConfidenceRaises(e) THEN Raise(acc, "TypeError")
             ELSE IF should_process_entity(e) /\ Lower(e.name) # "user"
             THEN IF get_node(acc.s, e.name) # {}
                  THEN update_entities(
                           Step(looked,
                                update_node_properties(looked.s, e.name,
                                                       e.properties),
                                EntityCall("update_node_properties", e,
                                           e.properties, i)),
                           entities, i + 1)
                  ELSE update_entities(looked, entities, i + 1)
             ELSE update_entities(acc, entities, i + 1)

\* _execute_update, second loop: delete the old relationship, create the new
RECURSIVE update_relationships(_, _, _)
update_relationships(acc, relationships, i) ==
    IF Ended(acc, relationships, i) THEN acc
    ELSE LET r == relationships[i]
             del == delete_relationship(acc.s, r.from_entity, r.to_entity,
                                        r.type)
             deleted == [acc EXCEPT
                            !.s = del.s,
                            !.calls = Append(@, RelCall("delete_relationship",
                                                        r, EmptyMap, i))]
         IN  IF ConfidenceRaises(r) THEN Raise(acc, "TypeError")
             ELSE IF should_process_relationship(r)
             THEN update_relationships(
                      Step(deleted,
                           create_relationship(del.s, r.from_entity,
                                               r.to_entity, r.type,
                                               r.properties),
                           RelCall("create_relationship", r, r.properties, i)),
                      relationships, i + 1)
             ELSE update_relationships(acc, relationships, i + 1)

execute_update(S, parsed) ==
    LET ents == update_entities(Acc(S), parsed.entities, 1)
        rels == update_relationships(Continue(ents), parsed.relationships, 1)
    IN  {Outcome(rels, Counted(parsed, "Updated", ents.n, rels.n),
                 ents.calls \o rels.calls)}

\* _execute_delete, first loop
RECURSIVE delete_relationships(_, _, _)
delete_relationships(acc, relationships, i) ==
    IF Ended(acc, relationships, i) THEN acc
    ELSE LET r == relationships[i]
         IN  IF ConfidenceRaises(r) THEN Raise(acc, "TypeError")
             ELSE IF should_process_relationship(r)
             THEN delete_relationships(
                      Step(acc,
                           delete_relationship(acc.s, r.from_entity,
                                               r.to_entity, r.type),
                           RelCall("delete_relationship", r, EmptyMap, i)),
                      relationships, i + 1)
             ELSE delete_relationships(acc, relationships, i + 1)

\* A variant of may_delete_entity that compares the name as it is written
may_delete_entity_cased(entity) ==
    should_process_entity(entity) /\ entity.name \notin protected_names

\* _execute_delete: the condition of the second loop
may_delete_entity(entity) ==
    should_process_entity(entity) /\ Lower(entity.name) \notin protected_names

\* _execute_delete, second loop
RECURSIVE delete_entities(_, _, _)
delete_entities(acc, entities, i) ==
    IF Ended(acc, entities, i) THEN acc
    ELSE LET e == entities[i]
         IN  IF ConfidenceRaises(e) THEN Raise(acc, "TypeError")
             ELSE IF may_delete_entity(e)
             THEN delete_entities(
                      Step(acc, delete_node(acc.s, e.name),
                           EntityCall("delete_node", e, EmptyMap, i)),
                      entities, i + 1)
             ELSE delete_entities(acc, entities, i + 1)

\* A variant of execute_delete with the two loops in the other order
execute_delete_entities_first(S, parsed) ==
    LET ents == delete_entities(Acc(S), parsed.entities, 1)
        rels == delete_relationships(Continue(ents), parsed.relationships, 1)
    IN  {Outcome(rels, Counted(parsed, "Deleted", ents.n, rels.n),
                 ents.calls \o rels.calls)}

execute_delete(S, parsed) ==
    LET rels == delete_relationships(Acc(S), parsed.relationships, 1)
        ents == delete_entities(Continue(rels), parsed.entities, 1)
    IN  {Outcome(ents, Counted(parsed, "Deleted", ents.n, rels.n),
                 rels.calls \o ents.calls)}

\* A variant of Guarded without the except clause: the exception reaches the
\* caller and there is no result
Unguarded(parsed, o) ==
    IF o.error # ""
    THEN [s |-> o.s, result |-> [raised |-> o.error], calls |-> o.calls]
    ELSE [s |-> o.s, result |-> o.result, calls |-> o.calls]

\* execute_parsed_conversation, try ... except Exception: the failed result
\* that carries the error text
Guarded(parsed, o) ==
    IF o.error # ""
    THEN [s |-> o.s,
          result |-> [result0(parsed) EXCEPT !.message = <<"Error:", o.error>>],
          calls |-> o.calls]
    ELSE [s |-> o.s, result |-> o.result, calls |-> o.calls]

\* The path execute_parsed_conversation takes for the intent
Dispatch(S, parsed) ==
    IF parsed.intent = "CREATE" THEN execute_create(S, parsed)
    ELSE IF parsed.intent = "READ" \/ parsed.intent = "QUERY"
         THEN execute_read(S, parsed)
    ELSE IF parsed.intent = "UPDATE" THEN execute_update(S, parsed)
    ELSE IF parsed.intent = "DELETE" THEN execute_delete(S, parsed)
    ELSE {Outcome(Acc(S),
                  [result0(parsed) EXCEPT
                      !.message = <<"Unknown intent:", parsed.intent>>],
                  <<>>)}

\* A variant of execute_parsed_conversation that runs the CREATE path for an
\* intent it does not know
execute_parsed_conversation_default_create(S, parsed) ==
    {Guarded(parsed, o) :
        o \in IF parsed.intent = "READ" \/ parsed.intent = "QUERY"
              THEN execute_read(S, parsed)
              ELSE IF parsed.intent = "UPDATE" THEN execute_update(S, parsed)
              ELSE IF parsed.intent = "DELETE" THEN execute_delete(S, parsed)
              ELSE execute_create(S, parsed)}

\* execute_parsed_conversation: the outcomes [s, result, calls] it may have
execute_parsed_conversation(S, parsed) ==
    {Guarded(parsed, o) : o \in Dispatch(S, parsed)}

-----------------------------------------------------------------------------
(* The calls of the model: what the callers of the store pass in *)

StoreNames == {"User", "Guitar"}

NodeTypes == {"Person", "Skill"}

StoreTypes == {"Skill"}

RelTypes == {"SKILLED_IN"}

\* Property maps: the map is open, "name" is a key like any other
NodePropertyMaps == {EmptyMap, [level |-> "v1"], [name |-> "User"]}

EdgePropertyMaps == {[level |-> "v1"], [level |-> Null], [since |-> "v1"]}

Within(S, size) ==
    /\ Cardinality(DOMAIN S.nodes) + Cardinality(S.edges) <= size
    /\ Len(S.demo_nodes) <= size

Install(S) ==
    /\ driver' = S.driver
    /\ nodes' = S.nodes
    /\ edges' = S.edges
    /\ demo_nodes' = S.demo_nodes
    /\ demo_relationships' = S.demo_relationships

\* What is kept of the last call: the operation, what it returned, whether
\* its target (the named node, the edge of the triple) existed before it, and
\* whether both endpoint names of a relationship call named a node
StoreCall(op, ret, existed, ends) ==
    [op |-> op, ret |-> ret, existed |-> existed, ends |-> ends]

Names(S) ==
    IF S.driver
    THEN {S.nodes[i]["name"] : i \in {j \in DOMAIN S.nodes :
                                          "name" \in DOMAIN S.nodes[j]}}
    ELSE {S.demo_nodes[i]["name"] : i \in {j \in 1..Len(S.demo_nodes) :
                                          "name" \in DOMAIN S.demo_nodes[j]}}

EdgesOf(S, a, b, t) ==
    {e \in S.edges : /\ e.src \in Matching(S, a)
                     /\ e.dst \in Matching(S, b)
                     /\ e.type = t}

Init ==
    /\ \E ok \in BOOLEAN :
          /\ driver = connect(ok).driver
          /\ nodes = connect(ok).nodes
          /\ edges = connect(ok).edges
          /\ demo_nodes = connect(ok).demo_nodes
          /\ demo_relationships = connect(ok).demo_relationships
    /\ last = StoreCall("connect", TRUE, FALSE, FALSE)

CreateOrUpdateNode ==
    \E name \in StoreNames, node_type \in StoreTypes, p \in NodePropertyMaps :
        LET r == create_or_update_node(Store, name, node_type, p)
        IN  /\ Within(r.s, MaxGraphSize)
            /\ Install(r.s)
            /\ last' = StoreCall("create_or_update_node", r.ret,
                                 name \in Names(Store), TRUE)

CreateRelationship ==
    \E a \in StoreNames, b \in StoreNames, t \in RelTypes,
       p \in EdgePropertyMaps :
        LET r == create_relationship(Store, a, b, t, p)
        IN  /\ Within(r.s, MaxGraphSize)
            /\ Install(r.s)
            /\ last' = StoreCall("create_relationship", r.ret,
                                 EdgesOf(Store, a, b, t) # {},
                                 {a, b} \subseteq Names(Store))

UpdateNodeProperties ==
    \E name \in StoreNames, p \in NodePropertyMaps :
        LET r == update_node_properties(Store, name, p)
        IN  /\ Within(r.s, MaxGraphSize)
            /\ Install(r.s)
            /\ last' = StoreCall("update_node_properties", r.ret,
                                 name \in Names(Store), TRUE)

DeleteNode ==
    \E name \in StoreNames :
        LET r == delete_node(Store, name)
        IN  /\ Within(r.s, MaxGraphSize)
            /\ Install(r.s)
            /\ last' = StoreCall("delete_node", r.ret,
                                 name \in Names(Store), TRUE)

DeleteRelationship ==
    \E a \in StoreNames, b \in StoreNames, t \in RelTypes :
        LET r == delete_relationship(Store, a, b, t)
        IN  /\ Within(r.s, MaxGraphSize)
            /\ Install(r.s)
            /\ last' = StoreCall("delete_relationship", r.ret,
                                 EdgesOf(Store, a, b, t) # {},
                                 {a, b} \subseteq Names(Store))

Next ==
    \/ CreateOrUpdateNode
    \/ CreateRelationship
    \/ UpdateNodeProperties
    \/ DeleteNode
    \/ DeleteRelationship

Spec == Init /\ [][Next]_vars

-----------------------------------------------------------------------------
(* The executor under the extractions the parser may hand it *)

Entity(name, type, properties, confidence) ==
    [name |-> name, type |-> type, properties |-> properties,
     confidence |-> confidence]

Relationship(from_entity, to_entity, type, properties, confidence) ==
    [from_entity |-> from_entity, to_entity |-> to_entity, type |-> type,
     properties |-> properties, confidence |-> confidence]

ParsedConversation(intent, entities, relationships) ==
    [intent |-> intent, entities |-> entities, relationships |-> relationships]

Intents == {"CREATE", "READ", "UPDATE", "DELETE", "unknown"}

EntityLists ==
    LET user == Entity("User", "Person", EmptyMap, 90)
        guitar == Entity("Guitar", "Skill", EmptyMap, 30)
        low == Entity("Guitar", "Skill", [level |-> "v1"], 29)
        renamed == Entity("Guitar", "Skill", [name |-> "User"], 90)
    IN  {<<>>, <<user>>, <<guitar>>, <<renamed>>,
         <<user, guitar>>, <<low, user>>}

RelationshipLists ==
    LET skilled == Relationship("User", "Guitar", "SKILLED_IN", EmptyMap, 30)
        back == Relationship("Guitar", "User", "SKILLED_IN",
                             [since |-> "v1"], 90)
        self == Relationship("User", "user", "SKILLED_IN", EmptyMap, 90)
    IN  {<<>>, <<skilled>>, <<back>>, <<self>>}

RECURSIVE CountIf(_, _, _)
CountIf(seq, P(_), i) ==
    IF i > Len(seq) THEN 0
    ELSE (IF P(seq[i]) THEN 1 ELSE 0) + CountIf(seq, P, i + 1)

\* What is kept of the last execution: the intent, the outcome's success and
\* counts, how many entity candidates the acceptance policy accepted and
\* refused, the call in which the backend raised (0: none), and whether the
\* outcome is the failed result of the except clause
ExecCall(parsed, result, fault) ==
    LET no_entity(e) == ~should_process_entity(e)
    IN  [op |-> "execute", ret |-> result.success, intent |-> parsed.intent,
         entities_processed |-> result.entities_processed,
         relationships_processed |-> result.relationships_processed,
         entities_accepted |->
             CountIf(parsed.entities, should_process_entity, 1),
         entities_refused |-> CountIf(parsed.entities, no_entity, 1),
         fault |-> fault,
         error |-> (result.message[1] = "Error:")]

Execute ==
    \E intent \in Intents, entities \in EntityLists,
       relationships \in RelationshipLists :
        LET parsed == ParsedConversation(intent, entities, relationships)
        IN  \E o \in execute_parsed_conversation(Store, parsed) :
                /\ Within(o.s, MaxExecGraphSize)
                /\ Install(o.s)
                /\ last' = ExecCall(parsed, o.result, 0)

\* Extractions with a candidate whose check raises: a confidence that is no
\* number, a name that is None
RaisingLists ==
    LET user == Entity("User", "Person", EmptyMap, 90)
        guitar == Entity("Guitar", "Skill", [level |-> "v1"], 90)
        unrated == Entity("Guitar", "Skill", EmptyMap, NotANumber)
        unnamed == Entity(Null, "Skill", EmptyMap, 90)
        unrated_rel == Relationship("User", "Guitar", "SKILLED_IN", EmptyMap,
                                    NotANumber)
    IN  {[entities |-> <<user, unrated>>, relationships |-> <<>>],
         [entities |-> <<user, guitar>>, relationships |-> <<unrated_rel>>],
         [entities |-> <<unnamed>>, relationships |-> <<>>]}

\* A well-formed extraction, executed while the backend raises in one call
\* or in none
FaultedLists ==
    {[entities |-> <<Entity("User", "Person", EmptyMap, 90),
                     Entity("Guitar", "Skill", [level |-> "v1"], 90)>>,
      relationships |-> <<Relationship("User", "Guitar", "SKILLED_IN",
                                       [level |-> "v1"], 90)>>]}

FailingRuns ==
    {[lists |-> l, fault |-> 0] : l \in RaisingLists}
    \cup {[lists |-> l, fault |-> f] : l \in FaultedLists, f \in 0..MaxFaultAt}

\* An execution in which a candidate check may raise or the backend may raise
ExecuteFailing ==
    \E intent \in {"CREATE", "READ", "UPDATE", "DELETE"}, run \in FailingRuns :
        LET parsed == ParsedConversation(intent, run.lists.entities,
                                         run.lists.relationships)
        IN  \E o \in execute_parsed_conversation(
                         [Store EXCEPT !.fault = run.fault], parsed) :
                /\ Within(o.s, MaxExecGraphSize)
                /\ Install(o.s)
                /\ last' = ExecCall(parsed, o.result, run.fault)

SpecExec == Init /\ [][Execute]_vars

SpecFault == Init /\ [][ExecuteFailing]_vars

-----------------------------------------------------------------------------
(* What the claims are stated over *)

\* The stored nodes, keyed by node id (backend) or list index (demo mode)
NodeMap(S) == IF S.driver THEN S.nodes ELSE S.demo_nodes

NodesNamed(S, name) ==
    {i \in DOMAIN NodeMap(S) : HasName(NodeMap(S)[i], name)}

NodeCount(S) == Cardinality(DOMAIN NodeMap(S))

Timestamps == {"created_at", "updated_at"}

WithoutTimestamps(n) == Restrict(n, DOMAIN n \ Timestamps)

\* The graph with the timestamps of its nodes and edges left out
Untimed(S) ==
    [nodes |-> [i \in DOMAIN NodeMap(S) |-> WithoutTimestamps(NodeMap(S)[i])],
     edges |-> {[e EXCEPT !.props = WithoutTimestamps(@)] : e \in S.edges}]

\* Names and property maps the claims range over: a name no call of the
\* model stores, two values of one key, a null, two keys, the key "name"
AnyNames == StoreNames \cup {"Me"}

AnyProperties ==
    {EmptyMap, [level |-> "v1"], [level |-> "v2"], [level |-> Null],
     [since |-> "v1"], [level |-> "v2", since |-> "v1"], [name |-> "User"]}

-----------------------------------------------------------------------------
(* C1 *)

\* C1: the graph holds at most one node per case-sensitive name, in backend
\* mode and in demo mode, and create_or_update_node on a name that a node
\* already has adds no node.
C1_OneNodePerName ==
    /\ \A i, j \in DOMAIN NodeMap(Store) :
          (/\ i # j
           /\ "name" \in DOMAIN NodeMap(Store)[i]
           /\ "name" \in DOMAIN NodeMap(Store)[j])
          => NodeMap(Store)[i]["name"] # NodeMap(Store)[j]["name"]
    /\ \A name \in Names(Store), t \in NodeTypes, p \in AnyProperties :
          NodeCount(create_or_update_node(Store, name, t, p).s)
              = NodeCount(Store)

(* C2 *)

\* C2: create_or_update_node(name, type, p1) followed by
\* create_or_update_node(name, type, p2) leaves exactly one node with that
\* name, carrying on every key of p1 or p2 the value of the union (p2's on a
\* shared key); repeating the second call leaves the graph as it is,
\* timestamps aside.
C2_MergeTwice ==
    \A name \in StoreNames, t \in NodeTypes, p1, p2 \in AnyProperties :
        LET s1 == create_or_update_node(Store, name, t, p1).s
            s2 == create_or_update_node(s1, name, t, p2).s
            s3 == create_or_update_node(s2, name, t, p2).s
            union == Merge(p1, p2)
        IN  /\ Cardinality(NodesNamed(s2, name)) = 1
            /\ \A i \in NodesNamed(s2, name) : \A k \in DOMAIN union :
                  /\ k \in DOMAIN NodeMap(s2)[i]
                  /\ NodeMap(s2)[i][k] = union[k]
            /\ Untimed(s3) = Untimed(s2)

(* C3 *)

\* C3: create_relationship returns false and leaves nodes and edges as they
\* are whenever from or to names no node; it never creates a node.
C3_MissingEndpointRejected ==
    \A a, b \in AnyNames, t \in RelTypes, p \in AnyProperties :
        LET r == create_relationship(Store, a, b, t, p)
        IN  /\ (NodesNamed(Store, a) = {} \/ NodesNamed(Store, b) = {})
                  => (~r.ret /\ r.s = Store)
            /\ NodeMap(r.s) = NodeMap(Store)

\* C3's case: with a node stored, a create_relationship call named a node
\* that does not exist and was refused
C3_Witness ==
    /\ driver
    /\ nodes # EmptyMap
    /\ last.op = "create_relationship"
    /\ ~last.ends
    /\ ~last.ret

(* C4 *)

EndpointsExist(S) ==
    \A e \in S.edges : e.src \in DOMAIN S.nodes /\ e.dst \in DOMAIN S.nodes

\* C4: every edge joins two existing nodes; delete_node removes the node with
\* every edge that touches it; after a DELETE execution on an entity the
\* node is absent and no edge touching it remains.
C4_CascadingDelete ==
    /\ EndpointsExist(Store)
    /\ \A name \in StoreNames :
          LET r == delete_node(Store, name)
          IN  /\ NodesNamed(r.s, name) = {}
              /\ EndpointsExist(r.s)
    /\ \A name \in StoreNames \ {"User"} :
          \A o \in execute_parsed_conversation(Store,
                      ParsedConversation("DELETE",
                          <<Entity(name, "Skill", EmptyMap, 90)>>, <<>>)) :
              /\ NodesNamed(o.s, name) = {}
              /\ EndpointsExist(o.s)

(* C6 *)

EdgeAt(S, e) ==
    {x \in S.edges : x.src = e.src /\ x.dst = e.dst /\ x.type = e.type}

\* C6 as claimed: create_relationship on a triple that has an edge replaces
\* the edge's properties: every key of p2 carries p2's value and no key that
\* only the old properties had remains.
C6_Replaced ==
    \A a, b \in StoreNames, t \in RelTypes,
       p2 \in {p \in AnyProperties : \A k \in DOMAIN p : p[k] # Null} :
        \A e \in EdgesOf(Store, a, b, t) :
            \A x \in EdgeAt(create_relationship(Store, a, b, t, p2).s, e) :
                /\ \A k \in DOMAIN p2 :
                      k \in DOMAIN x.props /\ x.props[k] = p2[k]
                /\ \A k \in DOMAIN e.props \ (DOMAIN p2 \cup Timestamps) :
                      k \notin DOMAIN x.props

\* C6 as amended: create_relationship on a triple that has an edge keeps the
\* one edge and merges p2 into its properties: a key of p2 (created_at
\* aside) carries p2's value, or is absent when that value is null, and a
\* key that only the old properties had keeps its value.
C6_Merged ==
    \A a, b \in StoreNames, t \in RelTypes, p2 \in AnyProperties :
        \A e \in EdgesOf(Store, a, b, t) :
            LET after == EdgeAt(create_relationship(Store, a, b, t, p2).s, e)
            IN  /\ Cardinality(after) = 1
                /\ \A x \in after :
                      /\ \A k \in DOMAIN p2 \ {"created_at"} :
                            IF p2[k] = Null THEN k \notin DOMAIN x.props
                            ELSE k \in DOMAIN x.props /\ x.props[k] = p2[k]
                      /\ \A k \in DOMAIN e.props \ (DOMAIN p2 \cup {"created_at"}) :
                            k \in DOMAIN x.props /\ x.props[k] = e.props[k]

\* C6's case: create_relationship succeeded on a triple that had an edge, and
\* the edge carries a key of the old properties beside one of the new
C6_Witness ==
    /\ last.op = "create_relationship"
    /\ last.existed
    /\ last.ret
    /\ \E e \in edges : {"level", "since"} \subseteq DOMAIN e.props

(* C5 *)

\* The (from, to, type) triple of an edge: the names of its ends and its type
Triple(S, e) == <<S.nodes[e.src]["name"], S.nodes[e.dst]["name"], e.type>>

\* C5: after any sequence of CREATE/UPDATE executions and create_relationship
\* calls no two edges have the same (from, to, type) triple, and
\* create_relationship on a triple that has an edge adds no edge.
C5_OneEdgePerTriple ==
    /\ \A e1, e2 \in edges :
          e1 # e2 => Triple(Store, e1) # Triple(Store, e2)
    /\ \A a, b \in StoreNames, t \in RelTypes, p \in EdgePropertyMaps :
          EdgesOf(Store, a, b, t) # {}
              => Cardinality(create_relationship(Store, a, b, t, p).s.edges)
                     = Cardinality(edges)

(* C7 *)

SelfCandidates ==
    {Relationship(a, b, "SKILLED_IN", EmptyMap, c) :
        a \in {"User"}, b \in {"User", "user"}, c \in {29, 30, 90}}

\* C7: the graph holds no edge whose from and to names are equal ignoring
\* case, and no execution passes a candidate with from = to (ignoring case)
\* to create_relationship.
C7_NoSelfEdges ==
    /\ \A e \in edges :
          Lower(nodes[e.src]["name"]) # Lower(nodes[e.dst]["name"])
    /\ \A intent \in Intents, r \in SelfCandidates :
          \A o \in execute_parsed_conversation(Store,
                      ParsedConversation(intent, <<>>, <<r>>)) :
              \A i \in DOMAIN o.calls : o.calls[i].op # "create_relationship"

(* C8 *)

\* Sequences of one or two members of a set
UpToTwo(set) == {<<x>> : x \in set} \cup {<<x, y>> : x, y \in set}

\* Candidates below and at the confidence floor, with other fields varied
FloorEntities ==
    {Entity("Guitar", "Skill", [level |-> "v1"], 29),
     Entity("Guitar", "Skill", [level |-> "v1"], 30),
     Entity("Guitar", "Skill", [name |-> "User"], 29)}

FloorRelationships ==
    {Relationship("User", "Guitar", "SKILLED_IN", [level |-> "v1"], 29),
     Relationship("User", "Guitar", "SKILLED_IN", [level |-> "v1"], 30),
     Relationship("Guitar", "User", "SKILLED_IN", EmptyMap, 29)}

FloorConversations ==
    {ParsedConversation(intent, entities, <<>>) :
        intent \in {"CREATE", "UPDATE", "DELETE"},
        entities \in UpToTwo(FloorEntities)}
    \cup
    {ParsedConversation(intent, entities, relationships) :
        intent \in {"CREATE", "UPDATE", "DELETE"},
        entities \in {<<Entity("User", "Person", EmptyMap, 90),
                        Entity("Guitar", "Skill", EmptyMap, 30)>>},
        relationships \in UpToTwo(FloorRelationships)}

Confident(c) == c.confidence >= ConfidenceThreshold

\* The conversation with the candidates below the floor taken out
AboveFloor(parsed) ==
    [parsed EXCEPT !.entities = SelectSeq(@, Confident),
                   !.relationships = SelectSeq(@, Confident)]

\* The name rules of an intent for an entity: neither blank nor generic, and
\* not a name the intent's loop passes over
EntityNameRules(intent, e) ==
    /\ Strip(e.name) # ""
    /\ Lower(e.name) \notin generic_names
    /\ intent = "UPDATE" => Lower(e.name) # "user"
    /\ intent = "DELETE" => Lower(e.name) \notin protected_names

RelationshipNameRules(r) ==
    /\ Strip(r.from_entity) # ""
    /\ Strip(r.to_entity) # ""
    /\ Lower(r.from_entity) # Lower(r.to_entity)

CandidateOf(parsed, call) ==
    IF call.kind = "entity" THEN parsed.entities[call.idx]
    ELSE parsed.relationships[call.idx]

HasCall(o, kind, idx) ==
    \E i \in DOMAIN o.calls : o.calls[i].kind = kind /\ o.calls[i].idx = idx

\* C8: in CREATE, UPDATE and DELETE executions no store call is made for a
\* candidate with confidence below 0.3 and the graph ends as it would without
\* those candidates; a candidate with confidence exactly 0.3 that passes the
\* name rules gets a store call.
C8_ConfidenceFloor ==
    \A parsed \in FloorConversations :
        \A o \in execute_parsed_conversation(Store, parsed) :
            /\ \A i \in DOMAIN o.calls :
                  Confident(CandidateOf(parsed, o.calls[i]))
            /\ \E w \in execute_parsed_conversation(Store, AboveFloor(parsed)) :
                  w.s = o.s
            /\ \A i \in DOMAIN parsed.entities :
                  (/\ parsed.entities[i].confidence = ConfidenceThreshold
                   /\ EntityNameRules(parsed.intent, parsed.entities[i]))
                  => HasCall(o, "entity", i)
            /\ \A i \in DOMAIN parsed.relationships :
                  (/\ parsed.relationships[i].confidence = ConfidenceThreshold
                   /\ RelationshipNameRules(parsed.relationships[i]))
                  => HasCall(o, "relationship", i)

\* C8's case: a CREATE execution refused its candidate "Guitar" (confidence
\* 0.29) and stored its candidate "User": the graph holds "User" alone
C8_Witness ==
    /\ last.op = "execute"
    /\ last.intent = "CREATE"
    /\ last.entities_refused = 1
    /\ last.entities_processed = 1
    /\ NodesNamed(Store, "User") # {}
    /\ NodesNamed(Store, "Guitar") = {}

(* C9 *)

ReadEntities ==
    {Entity("Guitar", "Skill", EmptyMap, 29),
     Entity("thing", "Skill", EmptyMap, 90),
     Entity(" ", "Skill", EmptyMap, 90),
     Entity("Guitar", "Skill", EmptyMap, 90)}

\* C9: in a READ or QUERY execution no candidate that the acceptance policy
\* refuses (confidence below 0.3, blank name, generic name) is fetched, and
\* the result is the one the accepted candidates alone give, by name or by
\* the by-type fallback.
C9_ReadAppliesPolicy ==
    \A intent \in {"READ", "QUERY"}, entities \in UpToTwo(ReadEntities) :
        LET parsed == ParsedConversation(intent, entities, <<>>)
            accepted == SelectSeq(entities, should_process_entity)
            named == read_by_name(Store, accepted, 1)
        IN  \A o \in execute_parsed_conversation(Store, parsed) :
                /\ \A i \in DOMAIN o.calls :
                      should_process_entity(CandidateOf(parsed, o.calls[i]))
                /\ o.result.data.items \in
                      (IF named # {<<>>} THEN named
                       ELSE read_by_type(Store, accepted, 1))

(* C10 *)

DeleteEntities ==
    {Entity("User", "Person", EmptyMap, 90),
     Entity("Me", "Person", EmptyMap, 90),
     Entity("Guitar", "Skill", EmptyMap, 90)}

DeleteRelationships ==
    {<<>>, <<Relationship("User", "Guitar", "SKILLED_IN", EmptyMap, 90)>>}

\* C10: a DELETE execution leaves every node named "user", "me" or "i"
\* (ignoring case) in place with its properties, also when the name is among
\* the accepted candidates; a DELETE whose only entity is "User" leaves the
\* nodes as they are.
C10_ProtectedNames ==
    /\ \A entities \in UpToTwo(DeleteEntities),
          relationships \in DeleteRelationships :
          \A o \in execute_parsed_conversation(Store,
                      ParsedConversation("DELETE", entities, relationships)) :
              \A i \in DOMAIN NodeMap(Store) :
                  (/\ "name" \in DOMAIN NodeMap(Store)[i]
                   /\ Lower(NodeMap(Store)[i]["name"]) \in protected_names)
                  => /\ i \in DOMAIN NodeMap(o.s)
                     /\ NodeMap(o.s)[i] = NodeMap(Store)[i]
    /\ \A o \in execute_parsed_conversation(Store,
                   ParsedConversation("DELETE",
                       <<Entity("User", "Person", EmptyMap, 90)>>, <<>>)) :
          NodeMap(o.s) = NodeMap(Store)

\* C10's case: with the backend connected, a DELETE execution accepted a
\* candidate and deleted no node, and the node "User" is in the graph
C10_Witness ==
    /\ driver
    /\ last.op = "execute"
    /\ last.intent = "DELETE"
    /\ last.entities_accepted >= 1
    /\ last.entities_processed = 0
    /\ NodesNamed(Store, "User") # {}

(* C11 *)

\* Intent strings the executor has no path for: the parser's failure value,
\* a known intent in lower case, the empty string, a word of another dialect
OtherIntents == {"unknown", "create", "", "MERGE"}

\* C11: for an intent outside CREATE, READ, QUERY, UPDATE, DELETE the
\* execution returns success false, a message carrying the intent string and
\* both counts 0, calls nothing on the store and leaves the graph as it is.
C11_UnknownIntent ==
    \A intent \in OtherIntents, entities \in EntityLists,
       relationships \in RelationshipLists :
        \A o \in execute_parsed_conversation(Store,
                    ParsedConversation(intent, entities, relationships)) :
            /\ o.result.success = FALSE
            /\ o.result.intent = intent
            /\ o.result.message = <<"Unknown intent:", intent>>
            /\ o.result.entities_processed = 0
            /\ o.result.relationships_processed = 0
            /\ o.calls = <<>>
            /\ o.s = Store

\* C11's case: an execution with the intent "unknown" carried an acceptable
\* entity candidate, failed, and the graph holds no node
C11_Witness ==
    /\ last.op = "execute"
    /\ last.intent = "unknown"
    /\ last.entities_accepted >= 1
    /\ ~last.ret
    /\ NodeCount(Store) = 0

(* C12 *)

FailingIntents == {"CREATE", "READ", "QUERY", "UPDATE", "DELETE"}

RunOf(intent, run) ==
    ParsedConversation(intent, run.lists.entities, run.lists.relationships)

Faulted(S, run) == [S EXCEPT !.fault = run.fault]

\* The backend raised inside a store call of the execution that ended in o
StoreCallFailed(run, o) == driver /\ run.fault > 0 /\ o.s.fault = 0

\* A candidate check of the execution raised
CheckRaised(intent, run) ==
    \E d \in Dispatch(Faulted(Store, run), RunOf(intent, run)) : d.error # ""

ResultFields ==
    {"intent", "success", "message", "entities_processed",
     "relationships_processed", "data"}

FailedResult(result) ==
    /\ result.success = FALSE
    /\ result.message[1] = "Error:"
    /\ result.entities_processed = 0
    /\ result.relationships_processed = 0

PlainProperties == {p \in AnyProperties : "name" \notin DOMAIN p}

\* C13: in demo mode get_node(name) returns the node after
\* create_or_update_node(name, type, props) returned true; every
\* create_relationship call returns false and stores nothing; the statistics
\* report 0 relationships.
C13_FallbackTolerance ==
    ~driver =>
        /\ \A name \in StoreNames, t \in NodeTypes, p \in PlainProperties :
              LET r == create_or_update_node(Store, name, t, p)
              IN  r.ret => /\ get_node(r.s, name) # {}
                           /\ \A d \in get_node(r.s, name) :
                                 HasName(d, name) /\ HasType(d, t)
        /\ \A a, b \in AnyNames, t \in RelTypes, p \in AnyProperties :
              LET r == create_relationship(Store, a, b, t, p)
              IN  ~r.ret /\ r.s = Store
        /\ get_graph_statistics(Store).relationships = 0

(* C14 *)

\* The two stores side by side, fed the same calls: the backend-connected
\* one lives in nodes and edges, the fallback one in demo_nodes
BackendSide ==
    [driver |-> TRUE, nodes |-> nodes, edges |-> edges,
     demo_nodes |-> <<>>, demo_relationships |-> <<>>, fault |-> 0]

FallbackSide ==
    [driver |-> FALSE, nodes |-> EmptyMap, edges |-> {},
     demo_nodes |-> demo_nodes, demo_relationships |-> demo_relationships,
     fault |-> 0]

\* What a caller sees of a result, timestamps aside
SeenBool(ret) == [kind |-> "bool", value |-> ret]

SeenNode(got) ==
    IF got = {} THEN {[kind |-> "none"]}
    ELSE {[kind |-> "node", value |-> WithoutTimestamps(d)] : d \in got}

SeenList(lists) ==
    {[kind |-> "list",
      value |-> [k \in DOMAIN l |-> WithoutTimestamps(l[k])]] : l \in lists}

BothCall(op, backend, fallback) ==
    [op |-> op, backend |-> backend, fallback |-> fallback]

InitModes ==
    /\ driver = TRUE
    /\ nodes = EmptyMap
    /\ edges = {}
    /\ demo_nodes = <<>>
    /\ demo_relationships = <<>>
    /\ last = BothCall("connect", SeenBool(TRUE), SeenBool(TRUE))

\* One write, made on both stores
BothWrite(op, b, f) ==
    /\ Within(b.s, MaxGraphSize)
    /\ Within(f.s, MaxGraphSize)
    /\ nodes' = b.s.nodes
    /\ edges' = b.s.edges
    /\ demo_nodes' = f.s.demo_nodes
    /\ demo_relationships' = f.s.demo_relationships
    /\ last' = BothCall(op, SeenBool(b.ret), SeenBool(f.ret))
    /\ UNCHANGED driver

\* One read, made on both stores
BothRead(op, backend, fallback) ==
    /\ \E b \in backend, f \in fallback : last' = BothCall(op, b, f)
    /\ UNCHANGED <<driver, nodes, edges, demo_nodes, demo_relationships>>

BothCreateOrUpdateNode ==
    \E name \in StoreNames, t \in StoreTypes, p \in NodePropertyMaps :
        BothWrite("create_or_update_node",
                  create_or_update_node(BackendSide, name, t, p),
                  create_or_update_node(FallbackSide, name, t, p))

BothUpdateNodeProperties ==
    \E name \in StoreNames, p \in NodePropertyMaps :
        BothWrite("update_node_properties",
                  update_node_properties(BackendSide, name, p),
                  update_node_properties(FallbackSide, name, p))

BothDeleteNode ==
    \E name \in StoreNames :
        BothWrite("delete_node", delete_node(BackendSide, name),
                  delete_node(FallbackSide, name))

BothGetNode ==
    \E name \in StoreNames :
        BothRead("get_node", SeenNode(get_node(BackendSide, name)),
                 SeenNode(get_node(FallbackSide, name)))

BothGetAllNodes ==
    BothRead("get_all_nodes", SeenList(get_all_nodes(BackendSide)),
             SeenList(get_all_nodes(FallbackSide)))

BothGetNodesByType ==
    \E t \in NodeTypes :
        BothRead("get_nodes_by_type",
                 SeenList(get_nodes_by_type(BackendSide, t)),
                 SeenList(get_nodes_by_type(FallbackSide, t)))

BothSearchNodesByName ==
    \E term \in {"", "user", "tar", "x"} :
        BothRead("search_nodes_by_name",
                 SeenList(search_nodes_by_name(BackendSide, term)),
                 SeenList(search_nodes_by_name(FallbackSide, term)))

NextModes ==
    \/ BothCreateOrUpdateNode
    \/ BothUpdateNodeProperties
    \/ BothDeleteNode
    \/ BothGetNode
    \/ BothGetAllNodes
    \/ BothGetNodesByType
    \/ BothSearchNodesByName

SpecModes == InitModes /\ [][NextModes]_vars

\* C14: every node operation of a sequence started on the empty graph
\* returns the same result from the fallback store as from the
\* backend-connected store.
C14_ModesAgree == last.backend = last.fallback

(* C15 *)

\* Type strings outside the allow-list: an identifier, and two that are no
\* Cypher when spliced
UnlistedTypes == {"MENTORS"} \cup MalformedTypes

\* C15: create_relationship and delete_relationship between two stored
\* nodes fail and leave the graph as it is when the type is not in
\* RELATIONSHIP_TYPES.
C15_TypeAllowList ==
    \A a, b \in Names(Store), t \in UnlistedTypes \ RELATIONSHIP_TYPES :
        /\ \A p \in EdgePropertyMaps :
              LET r == create_relationship(Store, a, b, t, p)
              IN  ~r.ret /\ r.s = Store
        /\ LET r == delete_relationship(Store, a, b, t)
           IN  ~r.ret /\ r.s = Store

-----------------------------------------------------------------------------
(* MemoryRetriever.find_related_entities over GraphManager.get_node_relationships *)

MaxDepth == 3

\* while ... len(related_entities) < 20
RelatedLimit == 20

\* The elements of a set as a list, in an order the set fixes.  The set is
\* bound to s once, which keeps the evaluation linear in its size.
RECURSIVE SeqOf(_)
SeqOf(set) ==
    CHOOSE seq \in {IF s = {} THEN <<>>
                    ELSE LET x == CHOOSE y \in s : TRUE
                         IN  <<x>> \o SeqOf(s \ {x}) : s \in {set}} : TRUE

Field(n, key) == IF key \in DOMAIN n THEN n[key] ELSE Null

\* The rows of  MATCH (n {name: $name})-[r]-(connected) : one per edge at a
\* node with the name, a self-loop once, as an outgoing edge
RelationshipRows(S, name) ==
    UNION {
        {[type |-> e.type, properties |-> e.props,
          target_name |-> Field(S.nodes[e.dst], "name"),
          target_type |-> Field(S.nodes[e.dst], "type"),
          direction |-> "outgoing"] : e \in {x \in S.edges : x.src = i}}
        \cup
        {[type |-> e.type, properties |-> e.props,
          target_name |-> Field(S.nodes[e.src], "name"),
          target_type |-> Field(S.nodes[e.src], "type"),
          direction |-> "incoming"] :
              e \in {x \in S.edges : x.dst = i /\ x.src # i}} :
        i \in Matching(S, name)}

Orders(set) ==
    {f \in [1..Cardinality(set) -> set] :
        \A a, b \in 1..Cardinality(set) : a # b => f[a] # f[b]}

RECURSIVE Concat(_, _)
Concat(seqs, i) ==
    IF i > Len(seqs) THEN <<>> ELSE seqs[i] \o Concat(seqs, i + 1)

\* A variant of get_node_relationships whose query does not bind the name:
\* the rows of every node
get_node_relationships_unbound(S, name) ==
    IF ~S.driver \/ Failing(S) THEN {<<>>}
    ELSE LET rows == UNION {RelationshipRows(S, n) : n \in Names(S)}
             targets == {r.target_name : r \in rows}
         IN  {Concat([k \in 1..Cardinality(targets) |->
                         SeqOf({r \in rows : r.target_name = f[k]})], 1) :
                 f \in Orders(targets)}

\* get_node_relationships: lists it may return.  The query has no ORDER BY,
\* so the rows come in any order; the orders enumerated here are those of
\* the connected names, with the rows of one connected name kept together.
get_node_relationships(S, name) ==
    IF ~S.driver \/ Failing(S) THEN {<<>>}
    ELSE LET rows == RelationshipRows(S, name)
             targets == {r.target_name : r \in rows}
         IN  {Concat([k \in 1..Cardinality(targets) |->
                         SeqOf({r \in rows : r.target_name = f[k]})], 1) :
                 f \in Orders(targets)}

\* A variant of Pop that leaves the queue as it is
Pop_keep(queue) == queue

\* queue.pop(0): what is left of the queue
Pop(queue) == Tail(queue)

\* if current_entity in visited or depth > max_depth: continue
Passed(entry, visited, max_depth) ==
    entry.entity \in visited \/ entry.depth > max_depth

\* A variant of Expand that records the path of the visited entity, without
\* the relationship that leads to the target
RECURSIVE Expand_parent_path(_, _, _, _, _, _, _)
Expand_parent_path(rels, i, entry, visited, max_depth, related_entities, queue) ==
    IF i > Len(rels)
    THEN [related_entities |-> related_entities, queue |-> queue]
    ELSE LET rel == rels[i]
             target == rel.target_name
             new_path == Append(entry.path, rel)
             found == [entity |-> target, depth |-> entry.depth + 1,
                       path |-> entry.path, relationship_type |-> rel.type]
         IN  IF target # Null /\ target # "" /\ target \notin visited
             THEN Expand_parent_path(rels, i + 1, entry, visited, max_depth,
                         Append(related_entities, found),
                         IF entry.depth + 1 < max_depth
                         THEN Append(queue,
                                     [entity |-> target,
                                      depth |-> entry.depth + 1,
                                      path |-> new_path])
                         ELSE queue)
             ELSE Expand_parent_path(rels, i + 1, entry, visited, max_depth,
                         related_entities, queue)

\* The for loop over the relationships of the entity that is visited
RECURSIVE Expand(_, _, _, _, _, _, _)
Expand(rels, i, entry, visited, max_depth, related_entities, queue) ==
    IF i > Len(rels)
    THEN [related_entities |-> related_entities, queue |-> queue]
    ELSE LET rel == rels[i]
             target == rel.target_name
             new_path == Append(entry.path, rel)
             found == [entity |-> target, depth |-> entry.depth + 1,
                       path |-> new_path, relationship_type |-> rel.type]
         IN  IF target # Null /\ target # "" /\ target \notin visited
             THEN Expand(rels, i + 1, entry, visited, max_depth,
                         Append(related_entities, found),
                         IF entry.depth + 1 < max_depth
                         THEN Append(queue,
                                     [entity |-> target,
                                      depth |-> entry.depth + 1,
                                      path |-> new_path])
                         ELSE queue)
             ELSE Expand(rels, i + 1, entry, visited, max_depth,
                         related_entities, queue)

\* The call in progress: its arguments, its local variables, its position
Traversal(entity_name, max_depth, queue, visited, related_entities, pc) ==
    [op |-> "find_related_entities", entity_name |-> entity_name,
     max_depth |-> max_depth, queue |-> queue, visited |-> visited,
     related_entities |-> related_entities, pc |-> pc]

Looping ==
    /\ last.pc = "loop"
    /\ last.queue # <<>>
    /\ Len(last.related_entities) < RelatedLimit

\* One pass of the while loop that ends in continue
Skip ==
    /\ Looping
    /\ Passed(Head(last.queue), last.visited, last.max_depth)
    /\ last' = [last EXCEPT !.queue = Pop(@)]
    /\ UNCHANGED <<driver, nodes, edges, demo_nodes, demo_relationships>>

\* One pass of the while loop that visits the entity it popped
Visit ==
    /\ Looping
    /\ ~Passed(Head(last.queue), last.visited, last.max_depth)
    /\ LET entry == Head(last.queue)
           visited == last.visited \cup {entry.entity}
       IN  \E rels \in get_node_relationships(Store, entry.entity) :
               LET acc == Expand(rels, 1, entry, visited, last.max_depth,
                                 last.related_entities, Pop(last.queue))
               IN  last' = [last EXCEPT
                               !.visited = visited,
                               !.queue = acc.queue,
                               !.related_entities = acc.related_entities]
    /\ UNCHANGED <<driver, nodes, edges, demo_nodes, demo_relationships>>

\* The while condition is false: return related_entities
Return ==
    /\ last.pc = "loop"
    /\ ~Looping
    /\ last' = [last EXCEPT !.pc = "done"]
    /\ UNCHANGED <<driver, nodes, edges, demo_nodes, demo_relationships>>

\* The graphs the traversal is run on: four entities, every subset of eight
\* edges among them (chains, cycles, a self-loop, two paths to one entity),
\* and two entities joined by an edge of every type in both directions
GraphNames == <<"User", "Guitar", "Python", "Django">>

GraphNodes ==
    [i \in 1..4 |-> [name |-> GraphNames[i], type |-> "Skill",
                     updated_at |-> Ts]]

Edge(a, b, rel_type) ==
    [src |-> a, dst |-> b, type |-> rel_type, props |-> [created_at |-> Ts]]

BaseEdges ==
    {Edge(1, 2, "KNOWS"), Edge(2, 1, "KNOWS"), Edge(2, 3, "KNOWS"),
     Edge(3, 4, "KNOWS"), Edge(1, 3, "LIKES"), Edge(3, 1, "KNOWS"),
     Edge(2, 2, "KNOWS"), Edge(4, 1, "KNOWS")}

Graphs ==
    {[nodes |-> GraphNodes, edges |-> es] : es \in SUBSET BaseEdges}
    \cup
    {[nodes |-> [i \in 1..2 |-> GraphNodes[i]],
      edges |-> {Edge(1, 2, rel_type) : rel_type \in RELATIONSHIP_TYPES}
                \cup {Edge(2, 1, rel_type) : rel_type \in RELATIONSHIP_TYPES}]}

\* The retriever on its store, before any call of find_related_entities
InitRetrieve ==
    /\ \E ok \in BOOLEAN :
          /\ driver = connect(ok).driver
          /\ nodes = connect(ok).nodes
          /\ edges = connect(ok).edges
          /\ demo_nodes = connect(ok).demo_nodes
          /\ demo_relationships = connect(ok).demo_relationships
    /\ last = Traversal("", 0, <<>>, {}, <<>>, "idle")

\* find_related_entities is called, on a graph that earlier calls on the
\* store have built (none in demo mode, where no call stores an edge)
Start ==
    /\ last.pc = "idle"
    /\ \E g \in Graphs :
          /\ nodes' = (IF driver THEN g.nodes ELSE EmptyMap)
          /\ edges' = (IF driver THEN g.edges ELSE {})
    /\ \E entity_name \in {"User", "Guitar", "Nobody"},
          max_depth \in 0..MaxDepth :
          last' = Traversal(entity_name, max_depth,
                            <<[entity |-> entity_name, depth |-> 0,
                               path |-> <<>>]>>,
                            {}, <<>>, "loop")
    /\ UNCHANGED <<driver, demo_nodes, demo_relationships>>

NextRetrieve ==
    \/ Start
    \/ Skip
    \/ Visit
    \/ Return

SpecRetrieve ==
    InitRetrieve /\ [][NextRetrieve]_vars /\ WF_vars(NextRetrieve)

(* C16 *)

\* C16: on every graph, cycles and self-loops included, for every start name
\* and every max_depth from 0 on, find_related_entities reaches its return.
C16_Terminates == (last.pc = "loop") ~> (last.pc = "done")

\* C16's case: the traversal returned on a graph with the cycle
\* User -> Guitar -> User and a self-loop at Guitar, after it visited both
C16_Witness ==
    /\ last.pc = "done"
    /\ {Edge(1, 2, "KNOWS"), Edge(2, 1, "KNOWS"), Edge(2, 2, "KNOWS")}
           \subseteq edges
    /\ {"User", "Guitar"} \subseteq last.visited

(* C17 *)

\* C17: find_related_entities returns at most 20 entities.
C17_AtMostTwenty ==
    last.pc = "done" => Len(last.related_entities) <= RelatedLimit

(* C18 *)

\* C18: every entity find_related_entities has recorded has a depth from 1
\* to max_depth, and no entry waiting to be expanded lies beyond max_depth.
C18_DepthWithinMax ==
    /\ \A i \in DOMAIN last.related_entities :
          /\ last.related_entities[i].depth >= 1
          /\ last.related_entities[i].depth <= last.max_depth
    /\ \A i \in DOMAIN last.queue : last.queue[i].depth <= last.max_depth

(* C19 *)

UpdateEntities ==
    {Entity("User", "Person", [level |-> "v2"], 90),
     Entity("user", "Person", [level |-> "v2"], 90),
     Entity("Guitar", "Skill", [level |-> "v2"], 90),
     Entity("Guitar", "Skill", [name |-> "Python"], 90),
     Entity("Python", "Skill", [level |-> "v2"], 90)}

\* UPDATE extractions: up to two entities, or one entity and a relationship
UpdateConversations ==
    {ParsedConversation("UPDATE", entities, <<>>) :
        entities \in UpToTwo(UpdateEntities)}
    \cup
    {ParsedConversation("UPDATE", <<e>>,
                        <<Relationship("User", "Guitar", "SKILLED_IN",
                                       [level |-> "v2"], 90)>>) :
        e \in UpdateEntities}

\* An entity before position i carries the name as a property, which
\* update_node_properties would give to the node it updates
RenamedTo(entities, i, name) ==
    \E j \in 1..(i - 1) :
        /\ "name" \in DOMAIN entities[j].properties
        /\ entities[j].properties["name"] = name

\* C19: an UPDATE execution leaves the set of nodes as it is; it makes no
\* update_node_properties call for an accepted entity whose name no node
\* has, and none for an entity named "User" in any case, whose nodes keep
\* their properties; update_node_properties on a name no node has returns
\* false and leaves the graph as it is.
C19_UpdateKeepsNodes ==
    /\ \A parsed \in UpdateConversations :
          \A o \in execute_parsed_conversation(Store, parsed) :
              /\ DOMAIN NodeMap(o.s) = DOMAIN NodeMap(Store)
              /\ \A i \in DOMAIN NodeMap(Store) :
                    (/\ "name" \in DOMAIN NodeMap(Store)[i]
                     /\ Lower(NodeMap(Store)[i]["name"]) = "user")
                    => NodeMap(o.s)[i] = NodeMap(Store)[i]
              /\ \A k \in DOMAIN o.calls :
                    o.calls[k].op = "update_node_properties"
                    => /\ Lower(o.calls[k].a) # "user"
                       /\ \/ NodesNamed(Store, o.calls[k].a) # {}
                          \/ RenamedTo(parsed.entities, o.calls[k].idx,
                                       o.calls[k].a)
    /\ \A name \in AnyNames, properties \in AnyProperties :
          NodesNamed(Store, name) = {}
          => LET r == update_node_properties(Store, name, properties)
             IN  /\ r.ret = FALSE
                 /\ r.s = Store

\* C19's case: with the backend connected, an UPDATE execution accepted one
\* entity, "Guitar", which no node is named, and updated none; the node
\* "User" is in the graph
C19_Witness ==
    /\ driver
    /\ last.op = "execute"
    /\ last.intent = "UPDATE"
    /\ last.entities_accepted = 1
    /\ last.entities_processed = 0
    /\ NodesNamed(Store, "Guitar") = {}
    /\ NodesNamed(Store, "User") # {}

(* C20 *)

ReplacingRelationships ==
    {Relationship(a, b, "SKILLED_IN", p, c) :
        a, b \in {"User", "Guitar"},
        p \in {EmptyMap, [level |-> "v2"], [since |-> "v1"]},
        c \in {30, 90}}

\* C20: after an UPDATE execution with an accepted relationship whose from
\* and to names are names of nodes of the graph, exactly one edge joins
\* nodes of these names with the relationship's type, and its properties,
\* the timestamps aside, are the relationship's properties.
C20_UpdateReplaces ==
    \A r \in ReplacingRelationships :
        (/\ should_process_relationship(r)
         /\ Matching(Store, r.from_entity) # {}
         /\ Matching(Store, r.to_entity) # {})
        => \A o \in execute_parsed_conversation(Store,
                        ParsedConversation("UPDATE", <<>>, <<r>>)) :
               LET after == EdgesOf(o.s, r.from_entity, r.to_entity, r.type)
               IN  /\ Cardinality(after) = 1
                   /\ \A x \in after :
                         WithoutTimestamps(x.props)
                             = WithoutTimestamps(r.properties)

(* C21 *)

DeleteConversations ==
    LET user == Entity("User", "Person", EmptyMap, 90)
        guitar == Entity("Guitar", "Skill", EmptyMap, 90)
        python == Entity("Python", "Skill", EmptyMap, 30)
        skilled == Relationship("User", "Guitar", "SKILLED_IN", EmptyMap, 30)
        back == Relationship("Guitar", "User", "SKILLED_IN", EmptyMap, 90)
        weak == Relationship("Guitar", "User", "SKILLED_IN", EmptyMap, 29)
    IN  {ParsedConversation("DELETE", entities, relationships) :
            entities \in {<<guitar>>, <<user, guitar>>, <<guitar, python>>},
            relationships \in {<<skilled>>, <<skilled, back>>,
                               <<weak, skilled>>}}

\* C21: in a DELETE execution every accepted relationship gets its
\* delete_relationship call, and each of these calls is made before the
\* first delete_node call.
C21_RelationshipsFirst ==
    \A parsed \in DeleteConversations :
        \A o \in execute_parsed_conversation(Store, parsed) :
            /\ \A i \in DOMAIN parsed.relationships :
                  should_process_relationship(parsed.relationships[i])
                  => \E k \in DOMAIN o.calls :
                         /\ o.calls[k].op = "delete_relationship"
                         /\ o.calls[k].idx = i
            /\ \E k \in DOMAIN o.calls : o.calls[k].op = "delete_node"
            /\ \A j, k \in DOMAIN o.calls :
                  (/\ o.calls[j].op = "delete_relationship"
                   /\ o.calls[k].op = "delete_node")
                  => j < k

\* C21's case: with the backend connected, a DELETE execution deleted a
\* relationship and a node
C21_Witness ==
    /\ driver
    /\ last.op = "execute"
    /\ last.intent = "DELETE"
    /\ last.relationships_processed >= 1
    /\ last.entities_processed >= 1

(* C22 *)

CreateEntityLists ==
    LET user == Entity("User", "Person", EmptyMap, 90)
        guitar == Entity("Guitar", "Skill", [level |-> "v1"], 30)
        low == Entity("Guitar", "Skill", EmptyMap, 29)
        renamed == Entity("Guitar", "Skill", [name |-> "User"], 90)
    IN  {<<user, guitar>>, <<guitar>>, <<user, low>>, <<user, renamed>>}

CreateRelationships ==
    {Relationship("User", "Guitar", "SKILLED_IN", [level |-> "v1"], 30),
     Relationship("Guitar", "User", "LIKES", EmptyMap, 90)}

\* The name is the name of an accepted entity of the extraction or of a node
EndpointGiven(S, parsed, name) ==
    \/ \E i \in DOMAIN parsed.entities :
          /\ should_process_entity(parsed.entities[i])
          /\ parsed.entities[i].name = name
    \/ Matching(S, name) # {}

\* The entries of a get_node_with_relationships value for the relationship r
\* in the direction, with a node named name at the other end
Listed(S, v, r, direction, name) ==
    {x \in v.relationships :
        /\ x.type = r.type
        /\ x.direction = direction
        /\ x.connected_node \in {S.nodes[i] : i \in Matching(S, name)}}

\* C22: with the backend connected, a CREATE execution makes every
\* create_or_update_node call before any create_relationship call; an
\* accepted relationship whose from and to names are names of accepted
\* entities of the extraction or of nodes is listed afterwards by
\* get_node_with_relationships(from) exactly once, outgoing, with the data of
\* the node named to, and by get_node_with_relationships(to) as incoming.
C22_CreateThenListed ==
    driver =>
    \A entities \in CreateEntityLists, r \in CreateRelationships :
        LET parsed == ParsedConversation("CREATE", entities, <<r>>)
        IN  \A o \in execute_parsed_conversation(Store, parsed) :
                /\ \A j, k \in DOMAIN o.calls :
                      (/\ o.calls[j].op = "create_or_update_node"
                       /\ o.calls[k].op = "create_relationship")
                      => j < k
                /\ (/\ should_process_relationship(r)
                    /\ EndpointGiven(Store, parsed, r.from_entity)
                    /\ EndpointGiven(Store, parsed, r.to_entity))
                   => /\ get_node_with_relationships(o.s, r.from_entity) # {}
                      /\ get_node_with_relationships(o.s, r.to_entity) # {}
                      /\ \A v \in get_node_with_relationships(o.s,
                                                               r.from_entity) :
                            Cardinality(Listed(o.s, v, r, "outgoing",
                                               r.to_entity)) = 1
                      /\ \A v \in get_node_with_relationships(o.s,
                                                               r.to_entity) :
                            Listed(o.s, v, r, "incoming", r.from_entity) # {}

-----------------------------------------------------------------------------
(* MemoryRetriever._extract_keywords.  A text is the sequence of its
   characters. *)

MaxQueryLen == 4

Uppercase ==
    <<"A", "B", "C", "D", "E", "F", "G", "H", "I", "J", "K", "L", "M",
      "N", "O", "P", "Q", "R", "S", "T", "U", "V", "W", "X", "Y", "Z">>

Lowercase ==
    <<"a", "b", "c", "d", "e", "f", "g", "h", "i", "j", "k", "l", "m",
      "n", "o", "p", "q", "r", "s", "t", "u", "v", "w", "x", "y", "z">>

\* str.lower, character by character
LowerChar(c) ==
    IF \E i \in DOMAIN Uppercase : Uppercase[i] = c
    THEN Lowercase[CHOOSE i \in DOMAIN Uppercase : Uppercase[i] = c]
    ELSE c

LowerText(text) == [i \in DOMAIN text |-> LowerChar(text[i])]

Whitespace == {" ", "\t", "\n"}

\* str.split(): the maximal runs of characters that are not whitespace
RECURSIVE Split(_, _, _)
Split(text, i, word) ==
    IF i > Len(text)
    THEN (IF word = <<>> THEN <<>> ELSE <<word>>)
    ELSE IF text[i] \in Whitespace
    THEN (IF word = <<>> THEN <<>> ELSE <<word>>) \o Split(text, i + 1, <<>>)
    ELSE Split(text, i + 1, Append(word, text[i]))

\* word.strip(".,!?;:") takes these characters off both ends of the word
StripChars == {".", ",", "!", "?", ";", ":"}

RECURSIVE StripLeft(_)
StripLeft(word) ==
    IF word # <<>> /\ Head(word) \in StripChars
    THEN StripLeft(Tail(word)) ELSE word

RECURSIVE StripRight(_)
StripRight(word) ==
    IF word # <<>> /\ word[Len(word)] \in StripChars
    THEN StripRight(SubSeq(word, 1, Len(word) - 1)) ELSE word

StripPunctuation(word) == StripRight(StripLeft(word))

stop_words ==
    {<<"i">>, <<"m", "e">>, <<"m", "y">>, <<"m", "y", "s", "e", "l", "f">>,
     <<"w", "e">>, <<"o", "u", "r">>, <<"o", "u", "r", "s">>,
     <<"o", "u", "r", "s", "e", "l", "v", "e", "s">>, <<"y", "o", "u">>,
     <<"y", "o", "u", "r">>, <<"y", "o", "u", "r", "s">>,
     <<"y", "o", "u", "r", "s", "e", "l", "f">>,
     <<"y", "o", "u", "r", "s", "e", "l", "v", "e", "s">>, <<"h", "e">>,
     <<"h", "i", "m">>, <<"h", "i", "s">>,
     <<"h", "i", "m", "s", "e", "l", "f">>, <<"s", "h", "e">>,
     <<"h", "e", "r">>, <<"h", "e", "r", "s">>,
     <<"h", "e", "r", "s", "e", "l", "f">>, <<"i", "t">>, <<"i", "t", "s">>,
     <<"i", "t", "s", "e", "l", "f">>, <<"t", "h", "e", "y">>,
     <<"t", "h", "e", "m">>, <<"t", "h", "e", "i", "r">>,
     <<"t", "h", "e", "i", "r", "s">>,
     <<"t", "h", "e", "m", "s", "e", "l", "v", "e", "s">>,
     <<"w", "h", "a", "t">>, <<"w", "h", "i", "c", "h">>, <<"w", "h", "o">>,
     <<"w", "h", "o", "m">>, <<"t", "h", "i", "s">>, <<"t", "h", "a", "t">>,
     <<"t", "h", "e", "s", "e">>, <<"t", "h", "o", "s", "e">>, <<"a", "m">>,
     <<"i", "s">>, <<"a", "r", "e">>, <<"w", "a", "s">>,
     <<"w", "e", "r", "e">>, <<"b", "e">>, <<"b", "e", "e", "n">>,
     <<"b", "e", "i", "n", "g">>, <<"h", "a", "v", "e">>, <<"h", "a", "s">>,
     <<"h", "a", "d">>, <<"h", "a", "v", "i", "n", "g">>, <<"d", "o">>,
     <<"d", "o", "e", "s">>, <<"d", "i", "d">>, <<"d", "o", "i", "n", "g">>,
     <<"a">>, <<"a", "n">>, <<"t", "h", "e">>, <<"a", "n", "d">>,
     <<"b", "u", "t">>, <<"i", "f">>, <<"o", "r">>,
     <<"b", "e", "c", "a", "u", "s", "e">>, <<"a", "s">>,
     <<"u", "n", "t", "i", "l">>, <<"w", "h", "i", "l", "e">>, <<"o", "f">>,
     <<"a", "t">>, <<"b", "y">>, <<"f", "o", "r">>, <<"w", "i", "t", "h">>,
     <<"t", "h", "r", "o", "u", "g", "h">>, <<"d", "u", "r", "i", "n", "g">>,
     <<"b", "e", "f", "o", "r", "e">>, <<"a", "f", "t", "e", "r">>,
     <<"a", "b", "o", "v", "e">>, <<"b", "e", "l", "o", "w">>, <<"u", "p">>,
     <<"d", "o", "w", "n">>, <<"i", "n">>, <<"o", "u", "t">>, <<"o", "n">>,
     <<"o", "f", "f">>, <<"o", "v", "e", "r">>, <<"u", "n", "d", "e", "r">>,
     <<"a", "g", "a", "i", "n">>, <<"f", "u", "r", "t", "h", "e", "r">>,
     <<"t", "h", "e", "n">>, <<"o", "n", "c", "e">>}

MinKeywordLen == 3

KeywordLimit == 5

\* if word not in stop_words and len(word) > 2, tested on the word as split
Kept(word) == word \notin stop_words /\ Len(word) >= MinKeywordLen

Keep(seq, n) == SubSeq(seq, 1, IF Len(seq) < n THEN Len(seq) ELSE n)

extract_keywords(query) ==
    LET words == Split(LowerText(query), 1, <<>>)
        kept == SelectSeq(words, Kept)
    IN  Keep([i \in DOMAIN kept |-> StripPunctuation(kept[i])], KeywordLimit)

\* The queries: every text of up to MaxQueryLen characters of a small
\* alphabet, and three sentences
QueryAlphabet == {"m", "e", "T", " ", "."}

RECURSIVE Texts(_)
Texts(n) ==
    IF n = 0 THEN {<<>>}
    ELSE Texts(n - 1)
         \cup {Append(t, c) : t \in {x \in Texts(n - 1) : Len(x) = n - 1},
                              c \in QueryAlphabet}

TellMeAboutGuitar ==
    <<"T", "e", "l", "l", " ", "m", "e", " ", "a", "b", "o", "u", "t", " ", "G", "u", "i", "t", "a", "r">>

SixKeywords ==
    <<"o", "n", "e", " ", "t", "w", "o", ".", " ", "s", "i", "x", " ", "t", "e", "n", ",", " ", "r", "e", "d", ".", " ", "B", "i", "g", " ", "o", "l", "d", "!">>

Queries == Texts(MaxQueryLen) \cup {TellMeAboutGuitar, SixKeywords}

InitKeywords ==
    /\ driver = connect(FALSE).driver
    /\ nodes = connect(FALSE).nodes
    /\ edges = connect(FALSE).edges
    /\ demo_nodes = connect(FALSE).demo_nodes
    /\ demo_relationships = connect(FALSE).demo_relationships
    /\ last = [op |-> "init", query |-> <<>>, keywords |-> <<>>]

\* One call of _extract_keywords; it keeps no state, so a behaviour holds
\* one call
ExtractKeywords ==
    /\ last.op = "init"
    /\ \E query \in Queries :
          last' = [op |-> "extract_keywords", query |-> query,
                   keywords |-> extract_keywords(query)]
    /\ UNCHANGED <<driver, nodes, edges, demo_nodes, demo_relationships>>

SpecKeywords == InitKeywords /\ [][ExtractKeywords]_vars

(* C24 *)

\* The tokens of the query in lower case, each without its punctuation
Tokens(query) ==
    LET words == Split(LowerText(query), 1, <<>>)
    IN  [i \in DOMAIN words |-> StripPunctuation(words[i])]

\* sub is seq with some of its entries left out
IsSubSeq(sub, seq) ==
    \E f \in [DOMAIN sub -> DOMAIN seq] :
        /\ \A i \in DOMAIN sub : sub[i] = seq[f[i]]
        /\ \A i, j \in DOMAIN sub : i < j => f[i] < f[j]

\* C24: keyword extraction returns at most 5 keywords, which are tokens of
\* the query in their order, in lower case and without their punctuation,
\* none a stop word and none of length 2 or less.
C24_Keywords ==
    last.op = "extract_keywords" =>
        /\ Len(last.keywords) <= KeywordLimit
        /\ IsSubSeq(last.keywords, Tokens(last.query))
        /\ \A i \in DOMAIN last.keywords :
              /\ last.keywords[i] \notin stop_words
              /\ Len(last.keywords[i]) > 2
              /\ last.keywords[i] = LowerText(last.keywords[i])
              /\ last.keywords[i] = StripRight(last.keywords[i])

-----------------------------------------------------------------------------
(* MemoryRetriever.retrieve_relevant_context and the steps it is made of *)

MaxContextGraphSize == 3

MaxResults == 1

\* The string with the characters of a text
RECURSIVE StringOf(_)
StringOf(text) ==
    IF text = <<>> THEN "" ELSE Head(text) \o StringOf(Tail(text))

\* A variant of Reads in which the look-up of "User" merges the node
Reads_merge_user(S, n) ==
    create_or_update_node(Ticks(S, n), "User", "Person", EmptyMap).s

\* The store after n more read calls were made on it: the queries of
\* get_node, search_nodes_by_name, get_node_relationships, get_all_nodes and
\* get_graph_statistics are MATCH ... RETURN, so a read changes nothing of
\* the graph
Reads(S, n) == Ticks(S, n)

\* _deduplicate_list: the first item of each identifier; an item without
\* the key, or with an empty identifier, is dropped
RECURSIVE deduplicate_list(_, _, _, _)
deduplicate_list(items, key, i, seen) ==
    IF i > Len(items) THEN <<>>
    ELSE LET identifier == Field(items[i], key)
         IN  IF identifier # Null /\ identifier # ""
                /\ identifier \notin seen
             THEN <<items[i]>>
                  \o deduplicate_list(items, key, i + 1,
                                      seen \cup {identifier})
             ELSE deduplicate_list(items, key, i + 1, seen)

\* _get_keyword_matches, first loop: the entity lists it may collect
RECURSIVE keyword_entities(_, _, _, _)
keyword_entities(S, keywords, max_results, i) ==
    IF i > Len(keywords) THEN {<<>>}
    ELSE {Keep(found, max_results) \o rest :
             found \in search_nodes_by_name(S, StringOf(keywords[i])),
             rest \in keyword_entities(S, keywords, max_results, i + 1)}

\* _get_keyword_matches, second loop: the relationship lists it may collect
RECURSIVE keyword_relationships(_, _, _)
keyword_relationships(S, entities, i) ==
    IF i > Len(entities) THEN {<<>>}
    ELSE LET name == IF "name" \in DOMAIN entities[i]
                     THEN entities[i]["name"] ELSE ""
         IN  {rels \o rest :
                 rels \in get_node_relationships(S, name),
                 rest \in keyword_relationships(S, entities, i + 1)}

get_keyword_matches(S, query, max_results) ==
    UNION {
        {[entities |->
              Keep(deduplicate_list(entities, "name", 1, {}), max_results),
          relationships |->
              Keep(deduplicate_list(relationships, "id", 1, {}), max_results),
          calls |-> Len(extract_keywords(query)) + Len(entities)] :
            relationships \in keyword_relationships(S, entities, 1)} :
        entities \in keyword_entities(S, extract_keywords(query),
                                      max_results, 1)}

\* Similarities are in hundredths: 0.3 is 30
SimilarityThreshold == 30

SimilarityValues == {30, 31, 90}

\* isinstance(value, str) and len(value) < 100, on the values of the model:
\* a timestamp is a temporal value of the backend, not a string
IsShortString(value) == value \notin {Null, Ts}

\* _create_node_text: the parts joined by " | ".  The properties are read
\* from the entry "properties" of the node dictionary, {} when it has none.
create_node_text(node) ==
    LET properties == IF "properties" \in DOMAIN node
                      THEN node["properties"] ELSE EmptyMap
        keys == SeqOf({key \in DOMAIN properties :
                          IsShortString(properties[key])})
    IN  (IF Field(node, "name") \notin {Null, ""}
         THEN <<node["name"]>> ELSE <<>>)
        \o (IF Field(node, "type") \notin {Null, ""}
            THEN <<"Type: " \o node["type"]>> ELSE <<>>)
        \o [k \in DOMAIN keys |-> keys[k] \o ": " \o properties[keys[k]]]

\* np.argsort(similarities)[-max_results:][::-1] : the indices by falling
\* similarity, the first max_results of them; [-0:] is the whole array
TopIndices(similarities, max_results) ==
    LET n == Len(similarities)
    IN  {Keep(f, IF max_results = 0 THEN n ELSE max_results) :
            f \in {g \in Orders(1..n) :
                      \A a, b \in 1..n :
                          a < b => similarities[g[a]] >= similarities[g[b]]}}

AboveThreshold(m) == m.similarity > SimilarityThreshold

\* The matches _get_semantic_matches may build from the nodes and their
\* similarities
matches_of(all_nodes, similarities, max_results) ==
    {SelectSeq([k \in DOMAIN top |->
                   [node |-> all_nodes[top[k]],
                    similarity |-> similarities[top[k]],
                    text |-> create_node_text(all_nodes[top[k]])]],
               AboveThreshold) :
        top \in TopIndices(similarities, max_results)}

\* _get_semantic_matches: the lists it may return.  The similarities are the
\* encoder's; an encoder that raises gives the empty list.
get_semantic_matches(S, embedding_model, query, max_results) ==
    IF ~embedding_model THEN {<<>>}
    ELSE UNION {
        IF all_nodes = <<>> THEN {<<>>}
        ELSE {<<>>} \cup UNION {
            matches_of(all_nodes, similarities, max_results) :
            similarities \in [DOMAIN all_nodes -> SimilarityValues]} :
        all_nodes \in get_all_nodes(S)}

\* str.lower() on the node types of the model
LowerType(node_type) ==
    CASE node_type = "Skill" -> "skill"
      [] node_type = "Person" -> "person"
      [] node_type = "Goal" -> "goal"
      [] node_type = "Preference" -> "preference"
      [] node_type = "Organization" -> "organization"
      [] node_type = "Location" -> "location"
      [] node_type = "Memory" -> "memory"
      [] OTHER -> node_type

\* The elif chain of _get_user_context: the category of a relationship,
\* "" for none
Category(rel) ==
    LET target_type == LowerType(rel.target_type)
        rel_type == rel.type
    IN  IF target_type = "skill" \/ rel_type = "SKILLED_IN" THEN "skills"
        ELSE IF target_type = "preference"
                \/ rel_type \in {"LIKES", "DISLIKES"} THEN "preferences"
        ELSE IF target_type = "goal" \/ rel_type = "WANTS_TO" THEN "goals"
        ELSE IF target_type = "organization" \/ rel_type = "WORKS_AT"
        THEN "organizations"
        ELSE IF target_type = "location" \/ rel_type = "LIVES_IN"
        THEN "locations"
        ELSE IF target_type = "memory" \/ rel_type = "REMEMBERS"
        THEN "memories"
        ELSE ""

Categories ==
    {"skills", "preferences", "goals", "organizations", "locations",
     "memories"}

InCategory(relationships, category) ==
    LET Is(rel) == Category(rel) = category
    IN  SelectSeq(relationships, Is)

\* _get_user_context: the values it may return: <<>> for None, else the
\* dictionary as the one entry of a list.
\* rel.get("target_type", "") is None for a target without a type, and
\* None.lower() raises: the except clause returns None.
get_user_context(S) ==
    IF get_node(S, "User") = {} THEN {<<>>}
    ELSE {IF \E i \in DOMAIN relationships :
                relationships[i].target_type = Null
          THEN <<>>
          ELSE <<[category \in Categories |->
                     InCategory(relationships, category)]>> :
             relationships \in get_node_relationships(S, "User")}

\* A query that is None instead of a text
NoText == <<Null>>

\* The try block of retrieve_relevant_context for a query that is a text:
\* the outcomes it may have, each the store after the call and the context
build_context(S, embedding_model, query, max_results) ==
    UNION {UNION {
        {[s |-> Reads(S, keyword_matches.calls
                         + (IF embedding_model THEN 1 ELSE 0) + 2
                         + (IF get_node(S, "User") # {} THEN 1 ELSE 0)),
          context |->
              (IF user_context # <<>>
               THEN ("user_profile" :> user_context[1]) ELSE EmptyMap)
              @@ [entities |-> keyword_matches.entities,
                  relationships |-> keyword_matches.relationships,
                  semantic_matches |-> semantic_matches,
                  statistics |-> get_graph_statistics(S),
                  query |-> query]] :
            user_context \in get_user_context(S)} :
        semantic_matches \in get_semantic_matches(S, embedding_model, query,
                                                  max_results)} :
        keyword_matches \in get_keyword_matches(S, query, max_results)}

\* The outcome of the except clause: the error and the query
error_context(S, query, error) ==
    {[s |-> S, context |-> [error |-> error, query |-> query]]}

\* A variant of retrieve_relevant_context for which a missing embedding
\* model is an error
retrieve_relevant_context_needs_model(S, embedding_model, query, max_results) ==
    IF query = NoText THEN error_context(S, query, "AttributeError")
    ELSE IF ~embedding_model THEN error_context(S, query, "no model")
    ELSE build_context(S, embedding_model, query, max_results)

\* retrieve_relevant_context.  A query that is no string raises in
\* _extract_keywords: the except clause returns the error and the query.
retrieve_relevant_context(S, embedding_model, query, max_results) ==
    IF query = NoText THEN error_context(S, query, "AttributeError")
    ELSE build_context(S, embedding_model, query, max_results)

\* find_related_entities as one call: the outcomes it may have
RECURSIVE Traverse(_, _, _, _, _, _)
Traverse(S, queue, visited, related_entities, max_depth, calls) ==
    IF queue = <<>> \/ Len(related_entities) >= RelatedLimit
    THEN {[s |-> Reads(S, calls), ret |-> related_entities]}
    ELSE LET entry == Head(queue)
         IN  IF Passed(entry, visited, max_depth)
             THEN Traverse(S, Pop(queue), visited, related_entities,
                           max_depth, calls)
             ELSE UNION {
                 LET acc == Expand(rels, 1, entry,
                                   visited \cup {entry.entity}, max_depth,
                                   related_entities, Pop(queue))
                 IN  Traverse(S, acc.queue, visited \cup {entry.entity},
                              acc.related_entities, max_depth, calls + 1) :
                 rels \in get_node_relationships(S, entry.entity)}

find_related_entities(S, entity_name, max_depth) ==
    Traverse(S, <<[entity |-> entity_name, depth |-> 0, path |-> <<>>]>>,
             {}, <<>>, max_depth, 0)

\* recent_conversations[-max_context:] : the last max_context entries;
\* [-0:] is the whole list
LastOf(seq, n) ==
    IF n = 0 \/ n >= Len(seq) THEN seq
    ELSE SubSeq(seq, Len(seq) - n + 1, Len(seq))

\* get_conversation_context: the parts joined by newlines, each the number
\* and the conversation
get_conversation_context(recent_conversations, max_context) ==
    LET recent == LastOf(recent_conversations, max_context)
    IN  [i \in DOMAIN recent |-> <<"Previous conversation", i, recent[i]>>]

\* The graphs the retriever runs on are built by store calls on these names,
\* node types (None: the extraction gave no type) and relationship types
ContextNames == {"User", "Guitar"}

ContextTypes(name) ==
    IF name = "User" THEN {"Person"} ELSE {"Person", "Skill", Null}

ContextRelTypes == {"SKILLED_IN", "WANTS_TO", "KNOWS"}

ContextQueries ==
    {TellMeAboutGuitar, <<".", ".", ".">>, <<"u", "s", "e", "r">>, NoText}

ContextConversations ==
    {<<>>, <<"hello">>, <<"hello", "I play guitar">>}

\* What is kept of the last call
ContextCall(op, embedding_model, max_results, entities, relationships,
            semantic_matches, profile, error) ==
    [op |-> op, embedding_model |-> embedding_model,
     max_results |-> max_results, entities |-> entities,
     relationships |-> relationships, semantic_matches |-> semantic_matches,
     profile |-> profile, error |-> error]

Idle(op) == ContextCall(op, FALSE, 0, 0, 0, 0, FALSE, FALSE)

InitContext ==
    /\ \E ok \in BOOLEAN :
          /\ driver = connect(ok).driver
          /\ nodes = connect(ok).nodes
          /\ edges = connect(ok).edges
          /\ demo_nodes = connect(ok).demo_nodes
          /\ demo_relationships = connect(ok).demo_relationships
    /\ last = Idle("connect")

ContextCreateNode ==
    \E name \in ContextNames :
      \E node_type \in ContextTypes(name) :
        LET r == create_or_update_node(Store, name, node_type, EmptyMap)
        IN  /\ Within(r.s, MaxContextGraphSize)
            /\ Install(r.s)
            /\ last' = Idle("create_or_update_node")

ContextCreateRelationship ==
    \E to_node \in ContextNames, rel_type \in ContextRelTypes :
        LET r == create_relationship(Store, "User", to_node, rel_type,
                                     EmptyMap)
        IN  /\ Within(r.s, MaxContextGraphSize)
            /\ Install(r.s)
            /\ last' = Idle("create_relationship")

RetrieveRelevantContext ==
    \E embedding_model \in BOOLEAN, query \in ContextQueries,
       max_results \in 0..MaxResults :
        \E o \in retrieve_relevant_context(Store, embedding_model, query,
                                           max_results) :
            /\ Install(o.s)
            /\ last' =
                 IF "error" \in DOMAIN o.context
                 THEN ContextCall("retrieve_relevant_context",
                                  embedding_model, max_results, 0, 0, 0,
                                  FALSE, TRUE)
                 ELSE ContextCall("retrieve_relevant_context",
                                  embedding_model, max_results,
                                  Len(o.context["entities"]),
                                  Len(o.context["relationships"]),
                                  Len(o.context["semantic_matches"]),
                                  "user_profile" \in DOMAIN o.context, FALSE)

FindRelatedEntities ==
    \E entity_name \in ContextNames, max_depth \in 0..2 :
        \E o \in find_related_entities(Store, entity_name, max_depth) :
            /\ Install(o.s)
            /\ last' = ContextCall("find_related_entities", FALSE, max_depth,
                                   Len(o.ret), 0, 0, FALSE, FALSE)

GetConversationContext ==
    /\ \E recent_conversations \in ContextConversations,
          max_context \in 0..2 :
          last' = ContextCall("get_conversation_context", FALSE, max_context,
                              Len(get_conversation_context(
                                      recent_conversations, max_context)),
                              0, 0, FALSE, FALSE)
    /\ UNCHANGED <<driver, nodes, edges, demo_nodes, demo_relationships>>

ExecuteRead ==
    \E intent \in {"READ", "QUERY"},
       entities \in {<<>>} \cup {<<Entity(name, "Skill", EmptyMap, 90)>> :
                                    name \in ContextNames} :
        \E o \in execute_parsed_conversation(Store,
                     ParsedConversation(intent, entities, <<>>)) :
            /\ Install(o.s)
            /\ last' = [op |-> "execute_read",
                        entities |-> o.result.entities_processed,
                        success |-> o.result.success,
                        by_type |-> \E k \in DOMAIN o.calls :
                                       o.calls[k].op = "get_nodes_by_type"]

NextContext ==
    \/ ContextCreateNode
    \/ ContextCreateRelationship
    \/ RetrieveRelevantContext
    \/ FindRelatedEntities
    \/ GetConversationContext
    \/ ExecuteRead

SpecContext == InitContext /\ [][NextContext]_vars

(* C25 *)

\* C25: the keywords of "Tell me about Guitar" are "guitar" and no other,
\* and when a node is named "Guitar" the keyword matches for this text,
\* with max_results 1 or more, hold a node named "Guitar".
C25_TellMeAboutGuitar ==
    /\ {extract_keywords(TellMeAboutGuitar)[i] :
            i \in DOMAIN extract_keywords(TellMeAboutGuitar)}
           = {<<"g", "u", "i", "t", "a", "r">>}
    /\ NodesNamed(Store, "Guitar") # {}
       => \A max_results \in 1..MaxResults :
              \A m \in get_keyword_matches(Store, TellMeAboutGuitar,
                                           max_results) :
                  \E i \in DOMAIN m.entities :
                      HasName(m.entities[i], "Guitar")

(* C26 *)

\* The relationship rows of the entities of a list
RowsOf(S, entities) ==
    UNION {RelationshipRows(S, Field(entities[i], "name")) :
              i \in DOMAIN entities}

\* C26: in the keyword matches for max_results 1 or more, when an entity of
\* the matches has a relationship, the relationships list is not empty; it
\* holds relationships of matched entities only, none twice, and at most
\* max_results of them.
C26_MatchedRelationships ==
    \A query \in ContextQueries \ {NoText}, max_results \in 1..MaxResults :
        \A m \in get_keyword_matches(Store, query, max_results) :
            /\ RowsOf(Store, m.entities) # {} => m.relationships # <<>>
            /\ Len(m.relationships) <= max_results
            /\ \A i \in DOMAIN m.relationships :
                  \E found \in keyword_entities(Store,
                                   extract_keywords(query), max_results, 1) :
                      m.relationships[i] \in RowsOf(Store, found)
            /\ \A i, j \in DOMAIN m.relationships :
                  i # j => m.relationships[i] # m.relationships[j]

(* C27 *)

WithoutSemanticMatches(context) ==
    Restrict(context, DOMAIN context \ {"semantic_matches"})

\* C27: without an embedding model retrieve_relevant_context returns a
\* context with no error and no semantic matches, and the contexts it may
\* return are, the semantic matches aside, those it may return with an
\* embedding model.
C27_KeywordOnly ==
    \A query \in ContextQueries \ {NoText}, max_results \in 0..MaxResults :
        LET without == retrieve_relevant_context(Store, FALSE, query,
                                                 max_results)
            with == retrieve_relevant_context(Store, TRUE, query,
                                              max_results)
        IN  /\ \A o \in without :
                  /\ "error" \notin DOMAIN o.context
                  /\ o.context["semantic_matches"] = <<>>
            /\ {WithoutSemanticMatches(o.context) : o \in without}
                   = {WithoutSemanticMatches(o.context) : o \in with}

\* C27's case: with the backend connected, a retrieval without an embedding
\* model returned a context without error that holds an entity
C27_Witness ==
    /\ driver
    /\ last.op = "retrieve_relevant_context"
    /\ ~last.embedding_model
    /\ ~last.error
    /\ last.entities >= 1
    /\ last.semantic_matches = 0

(* C28 *)

\* C28: with an embedding model the semantic matches are at most
\* max_results, each of similarity above 0.3, in falling order of
\* similarity, and a node that is no match has no similarity above a
\* match's.
C28_TopMatches ==
    /\ \A max_results \in 0..MaxResults :
          \A matches \in get_semantic_matches(Store, TRUE, TellMeAboutGuitar,
                                              max_results) :
              /\ Len(matches) <= max_results
              /\ \A i \in DOMAIN matches :
                    matches[i].similarity > SimilarityThreshold
              /\ \A i, j \in DOMAIN matches :
                    i < j => matches[i].similarity >= matches[j].similarity
    /\ \A max_results \in 0..MaxResults, all_nodes \in get_all_nodes(Store) :
          \A similarities \in [DOMAIN all_nodes -> SimilarityValues] :
              \A matches \in matches_of(all_nodes, similarities,
                                        max_results) :
                  \A i \in DOMAIN matches, k \in DOMAIN all_nodes :
                      similarities[k] > matches[i].similarity
                      => \E j \in DOMAIN matches :
                             matches[j].node = all_nodes[k]

(* C29 *)

\* The category rules: the target types and the relationship types of a
\* category
CategoryRules ==
    [skills |-> [target |-> "skill", types |-> {"SKILLED_IN"}],
     preferences |-> [target |-> "preference", types |-> {"LIKES", "DISLIKES"}],
     goals |-> [target |-> "goal", types |-> {"WANTS_TO"}],
     organizations |-> [target |-> "organization", types |-> {"WORKS_AT"}],
     locations |-> [target |-> "location", types |-> {"LIVES_IN"}],
     memories |-> [target |-> "memory", types |-> {"REMEMBERS"}]]

MatchesRule(rel, category) ==
    \/ LowerType(rel.target_type) = CategoryRules[category].target
    \/ rel.type \in CategoryRules[category].types

InBucket(profile, rel, category) ==
    \E i \in DOMAIN profile[category] : profile[category][i] = rel

\* C29: the context of a retrieval has no error; it has no user profile
\* when no node is named "User"; when one is, it has a profile in which
\* every relationship of "User" that matches a category rule is in a bucket
\* whose rule it matches, and a relationship that matches none is in no
\* bucket.
C29_UserProfile ==
    \A o \in retrieve_relevant_context(Store, FALSE, <<"u", "s", "e", "r">>,
                                       MaxResults) :
        /\ "error" \notin DOMAIN o.context
        /\ NodesNamed(Store, "User") = {}
           => "user_profile" \notin DOMAIN o.context
        /\ NodesNamed(Store, "User") # {}
           => /\ "user_profile" \in DOMAIN o.context
              /\ \A rel \in RelationshipRows(Store, "User") :
                    LET profile == o.context["user_profile"]
                        rules == {c \in Categories : MatchesRule(rel, c)}
                    IN  /\ rules # {}
                           => \E c \in rules : InBucket(profile, rel, c)
                        /\ \A c \in Categories \ rules :
                              ~InBucket(profile, rel, c)

(* C23 *)

RetrievalOps ==
    {"retrieve_relevant_context", "find_related_entities",
     "get_conversation_context", "execute_read"}

\* C23: a step of retrieve_relevant_context, find_related_entities,
\* get_conversation_context or a READ/QUERY execution leaves the graph
\* unchanged: the nodes with their properties and the edges, of the backend
\* and of the demo store.
C23_RetrievalReadOnly ==
    [][last'.op \in RetrievalOps
       => UNCHANGED <<driver, nodes, edges, demo_nodes,
                      demo_relationships>>]_vars

\* A traversal has returned related entities of a graph with edges
C23_Witness ==
    /\ last.op = "find_related_entities"
    /\ last.entities > 0
    /\ edges # {}

(***************************************************************************)
(* CRUDExecutor.get_execution_summary                                      *)
(***************************************************************************)

MaxBatch == 3

\* r.get(key, default)
Get(r, key, default) == IF key \in DOMAIN r THEN r[key] ELSE default

RECURSIVE GCD(_, _)
GCD(a, b) == IF b = 0 THEN a ELSE GCD(b, a % b)

\* The value of the float a / b, kept as the fraction in lowest terms
TrueDivide(a, b) == [num |-> a \div GCD(a, b), den |-> b \div GCD(a, b)]

\* The float 0.0
ZeroFloat == [num |-> 0, den |-> 1]

\* sum(r.get(key, 0) for r in results)
RECURSIVE SumOf(_, _, _)
SumOf(results, key, i) ==
    IF i > Len(results) THEN 0
    ELSE Get(results[i], key, 0) + SumOf(results, key, i + 1)

\* sum(1 for r in results if r.get("success", False))
RECURSIVE successful_operations(_, _)
successful_operations(results, i) ==
    IF i > Len(results) THEN 0
    ELSE (IF Get(results[i], "success", FALSE) THEN 1 ELSE 0)
         + successful_operations(results, i + 1)

\* The loop over the results that counts the intents
RECURSIVE intent_counts(_, _, _)
intent_counts(results, i, counts) ==
    IF i > Len(results) THEN counts
    ELSE LET intent == Get(results[i], "intent", "unknown")
         IN  intent_counts(results, i + 1,
                           (intent :> (Get(counts, intent, 0) + 1))
                           @@ counts)

\* The summary with the given success rate
Summary(results, success_rate) ==
    [total_operations |-> Len(results),
     successful_operations |-> successful_operations(results, 1),
     total_entities_processed |-> SumOf(results, "entities_processed", 1),
     total_relationships_processed |->
         SumOf(results, "relationships_processed", 1),
     intent_breakdown |-> intent_counts(results, 1, EmptyMap),
     success_rate |-> success_rate]

\* A variant of get_execution_summary that divides without looking at the
\* batch: the empty batch raises ZeroDivisionError
get_execution_summary_unguarded(results) ==
    IF Len(results) = 0 THEN [error |-> "ZeroDivisionError"]
    ELSE Summary(results,
                 TrueDivide(successful_operations(results, 1), Len(results)))

\* get_execution_summary
get_execution_summary(results) ==
    Summary(results,
            IF results # <<>>
            THEN TrueDivide(successful_operations(results, 1), Len(results))
            ELSE ZeroFloat)

\* An outcome as execute_parsed_conversation builds it
ExecutionResult(intent, success, entities_processed,
                relationships_processed) ==
    [intent |-> intent, success |-> success, message |-> <<"">>,
     entities_processed |-> entities_processed,
     relationships_processed |-> relationships_processed,
     data |-> [kind |-> "none"]]

\* The outcomes of the batches: outcomes of the executor, and dictionaries
\* that lack keys
SummaryOutcomes ==
    {ExecutionResult("CREATE", TRUE, 2, 1),
     ExecutionResult("READ", TRUE, 1, 0),
     ExecutionResult("DELETE", FALSE, 0, 0),
     ExecutionResult("SING", FALSE, 0, 0),
     [intent |-> "UPDATE", success |-> TRUE],
     [entities_processed |-> 3]}

Batches == UNION {[1..n -> SummaryOutcomes] : n \in 0..MaxBatch}

InitSummary ==
    /\ driver = connect(FALSE).driver
    /\ nodes = connect(FALSE).nodes
    /\ edges = connect(FALSE).edges
    /\ demo_nodes = connect(FALSE).demo_nodes
    /\ demo_relationships = connect(FALSE).demo_relationships
    /\ last = [op |-> "init", results |-> <<>>, summary |-> EmptyMap]

\* One call of get_execution_summary; it keeps no state, so a behaviour
\* holds one call
GetExecutionSummary ==
    /\ last.op = "init"
    /\ \E results \in Batches :
          last' = [op |-> "get_execution_summary", results |-> results,
                   summary |-> get_execution_summary(results)]
    /\ UNCHANGED <<driver, nodes, edges, demo_nodes, demo_relationships>>

SpecSummary == InitSummary /\ [][GetExecutionSummary]_vars

(* C30 *)

\* The outcomes of a batch that have the key with the value
Having(results, key, value) ==
    {i \in DOMAIN results : key \in DOMAIN results[i]
                            /\ results[i][key] = value}

\* The sum of the values of a function
RECURSIVE Total(_)
Total(f) ==
    IF DOMAIN f = {} THEN 0
    ELSE LET k == CHOOSE k \in DOMAIN f : TRUE
         IN  f[k] + Total([j \in DOMAIN f \ {k} |-> f[j]])

\* C30: the summary of a batch is no error; total_operations is the size
\* of the batch; successful_operations is the number of outcomes whose
\* success is true, between 0 and the total; the entity and relationship
\* totals are the sums of the counts of the outcomes; the counts of the
\* intent histogram sum to the size of the batch, each the number of
\* outcomes of the intent; success_rate is successful / total, and 0.0 for
\* the empty batch.
C30_Summary ==
    last.op = "get_execution_summary" =>
        LET results == last.results
            summary == last.summary
            successful == Cardinality(Having(results, "success", TRUE))
        IN  /\ "error" \notin DOMAIN summary
            /\ summary.total_operations = Len(results)
            /\ summary.successful_operations = successful
            /\ 0 <= summary.successful_operations
            /\ summary.successful_operations <= summary.total_operations
            /\ summary.total_entities_processed
                 = Total([i \in DOMAIN results |->
                             Get(results[i], "entities_processed", 0)])
            /\ summary.total_relationships_processed
                 = Total([i \in DOMAIN results |->
                             Get(results[i], "relationships_processed", 0)])
            /\ Total(summary.intent_breakdown) = Len(results)
            /\ \A intent \in DOMAIN summary.intent_breakdown :
                  \/ summary.intent_breakdown[intent]
                       = Cardinality(Having(results, "intent", intent))
                  \/ /\ intent = "unknown"
                     /\ summary.intent_breakdown[intent]
                          = Cardinality({i \in DOMAIN results :
                                            "intent" \notin DOMAIN results[i]})
            /\ summary.success_rate.den > 0
            /\ IF results = <<>>
               THEN summary.success_rate.num = 0
               ELSE summary.success_rate.num * Len(results)
                    = successful * summary.success_rate.den

\* The summary of a batch in which some outcome succeeded and some did not
C30_Witness ==
    /\ last.op = "get_execution_summary"
    /\ Len(last.results) >= 2
    /\ last.summary.successful_operations > 0
    /\ last.summary.successful_operations < last.summary.total_operations

(* C31 *)

\* C31: get_conversation_context(history, max_context) renders exactly the
\* last min(|history|, max_context) items of the history, in their order,
\* numbered from 1, for every max_context >= 0; the empty history gives the
\* empty string.  Stated for the max_context of the call made last and
\* every history.
C31_LastConversations ==
    last.op = "get_conversation_context" =>
        \A recent_conversations \in ContextConversations :
            LET max_context == last.max_results
                rendered == get_conversation_context(recent_conversations,
                                                     max_context)
                size == Len(recent_conversations)
                count == IF size < max_context THEN size ELSE max_context
            IN  /\ Len(rendered) = count
                /\ \A i \in 1..count :
                      rendered[i] = <<"Previous conversation", i,
                                      recent_conversations[size - count + i]>>

(***************************************************************************)
(* GraphManager.get_graph_data_for_visualization                           *)
(***************************************************************************)

\* The entry of the nodes list built for a backend row: record["type"] or
\* "Default"; the colour is a function of the type and is left out
VisualNode(n) ==
    [id |-> Field(n, "name"), label |-> Field(n, "name"),
     type |-> IF "type" \in DOMAIN n THEN n["type"] ELSE "Default",
     properties |-> n]

\* The entry built for a dictionary of the demo store
DemoVisualNode(n) ==
    [id |-> IF "name" \in DOMAIN n THEN n["name"] ELSE "Unknown",
     label |-> IF "name" \in DOMAIN n THEN n["name"] ELSE "Unknown",
     type |-> IF "type" \in DOMAIN n THEN n["type"] ELSE "Default",
     properties |-> Restrict(n, DOMAIN n \ {"name", "type"})]

\* MATCH (a)-[r]->(b) WHERE a.name IN $node_names AND b.name IN $node_names:
\* a null name is in no list
VisualEdges(S, node_names) ==
    {[source |-> S.nodes[e.src]["name"], target |-> S.nodes[e.dst]["name"],
      type |-> e.type, label |-> e.type, properties |-> e.props] :
        e \in {x \in S.edges :
                  /\ "name" \in DOMAIN S.nodes[x.src]
                  /\ "name" \in DOMAIN S.nodes[x.dst]
                  /\ S.nodes[x.src]["name"] \in node_names
                  /\ S.nodes[x.dst]["name"] \in node_names}}

\* get_graph_data_for_visualization(limit), limit >= 0: the values it may
\* return.  The demo branch returns every dictionary of the demo store;
\* MATCH (n) ... LIMIT returns any limit nodes, in any order.
get_graph_data_for_visualization(S, limit) ==
    IF ~S.driver
    THEN {[nodes |-> [i \in 1..Len(S.demo_nodes) |->
                         DemoVisualNode(S.demo_nodes[i])],
           edges |-> {S.demo_relationships[i] :
                         i \in 1..Len(S.demo_relationships)},
           total_nodes |-> Len(S.demo_nodes),
           total_edges |-> Len(S.demo_relationships)]}
    ELSE IF Failing(S)
    THEN {[nodes |-> <<>>, edges |-> {}, error |-> "backend"]}
    ELSE LET size == Cardinality(DOMAIN S.nodes)
             count == IF size < limit THEN size ELSE limit
         IN  {LET node_names == {S.nodes[f[k]]["name"] :
                                    k \in {j \in 1..count :
                                        "name" \in DOMAIN S.nodes[f[j]]}}
              IN  [nodes |-> [k \in 1..count |-> VisualNode(S.nodes[f[k]])],
                   edges |-> VisualEdges(S, node_names),
                   total_nodes |-> count,
                   total_edges |-> Cardinality(VisualEdges(S, node_names))] :
                f \in {g \in [1..count -> DOMAIN S.nodes] :
                          \A a, b \in 1..count : a # b => g[a] # g[b]}}

(* C32 *)

\* C32: get_graph_data_for_visualization(limit) returns at most limit
\* nodes, and only edges whose source and target are both among the
\* returned nodes, with a backend and in demo mode.
C32_VisualizationWindow ==
    \A limit \in 0..MaxGraphSize :
        \A data \in get_graph_data_for_visualization(Store, limit) :
            LET ids == {data.nodes[k].id : k \in DOMAIN data.nodes}
            IN  /\ Len(data.nodes) <= limit
                /\ \A e \in data.edges :
                      e.source \in ids /\ e.target \in ids

(* C33 *)

AskedEntities ==
    {Entity(name, type, EmptyMap, 90) :
        name \in ContextNames, type \in {"Person", "Skill"}}

AskedEntityLists ==
    {<<>>} \cup {<<a>> : a \in AskedEntities}
           \cup {<<a, b>> : a \in {c \in AskedEntities : c.name = "User"},
                             b \in {c \in AskedEntities : c.name = "Guitar"}}

\* The candidates whose node the first loop fetches, and those whose type
\* the second loop fetches
AskedByName(entities) ==
    {i \in DOMAIN entities : Lower(entities[i].name) # "user"}

AskedByType(entities) ==
    {i \in DOMAIN entities : entities[i].type # "Person"}

CallsOf(calls, op) == {k \in DOMAIN calls : calls[k].op = op}

\* C33: in a READ/QUERY execution with at least one entity the nodes of the
\* candidates' types (type "Person" excluded) are fetched only when the
\* fetch by name found nothing, and then once for each such candidate;
\* success is true exactly when the result list is non-empty; with no
\* entity the data is the graph statistics.
C33_ReadFallback ==
    \A intent \in {"READ", "QUERY"}, entities \in AskedEntityLists :
        LET parsed == ParsedConversation(intent, entities, <<>>)
            found_by_name ==
                \E i \in AskedByName(entities) :
                    get_node_with_relationships(Store, entities[i].name) # {}
        IN  \A o \in execute_parsed_conversation(Store, parsed) :
                IF entities = <<>>
                THEN /\ o.result.success
                     /\ o.result.data = [kind |-> "stats",
                                         stats |-> get_graph_statistics(Store)]
                ELSE LET items == o.result.data.items
                         by_type == CallsOf(o.calls, "get_nodes_by_type")
                     IN  /\ o.result.data.kind = "list"
                         /\ o.result.success = (Len(items) > 0)
                         /\ found_by_name
                            => /\ by_type = {}
                               /\ \A k \in DOMAIN items :
                                     \E i \in AskedByName(entities) :
                                         items[k] \in
                                             get_node_with_relationships(
                                                 Store, entities[i].name)
                         /\ ~found_by_name
                            => /\ {o.calls[k].idx : k \in by_type}
                                    = AskedByType(entities)
                               /\ \A k \in DOMAIN items :
                                     \E i \in AskedByType(entities) :
                                         HasType(items[k], entities[i].type)
                               /\ \A n \in DOMAIN nodes :
                                     (driver /\ \E i \in AskedByType(entities) :
                                         HasType(nodes[n], entities[i].type))
                                     => \E k \in DOMAIN items :
                                            items[k] = nodes[n]

\* A READ/QUERY execution has found nodes by type
C33_Witness ==
    /\ last.op = "execute_read"
    /\ last.by_type
    /\ last.success
    /\ last.entities > 0

(***************************************************************************)
(* The executor under candidates with blank and generic names              *)
(***************************************************************************)

MaxNamedGraphSize == 2

\* Candidates whose name is blank or generic, and candidates whose property
\* map has a "name" key
NamedEntities ==
    {Entity(name, "Skill", properties, 90) :
        name \in {"Guitar", "Thing", "thing", " ", ""},
        properties \in {EmptyMap, [name |-> "thing"], [name |-> " "],
                        [level |-> "v1"]}}

ExecuteNamed ==
    \E intent \in {"CREATE", "UPDATE", "DELETE"}, entity \in NamedEntities :
        LET parsed == ParsedConversation(intent, <<entity>>, <<>>)
        IN  \E o \in execute_parsed_conversation(Store, parsed) :
                /\ Within(o.s, MaxNamedGraphSize)
                /\ Install(o.s)
                /\ last' = ExecCall(parsed, o.result, 0)

SpecNames == Init /\ [][ExecuteNamed]_vars

(* C34 *)

NodeNames ==
    {nodes[i]["name"] : i \in {j \in DOMAIN nodes : "name" \in DOMAIN nodes[j]}}
    \cup {demo_nodes[i]["name"] :
              i \in {j \in DOMAIN demo_nodes : "name" \in DOMAIN demo_nodes[j]}}

\* C34: after any sequence of executions from the empty graph no node has a
\* name that is empty or blank, and no node has a name that is, ignoring
\* case, one of thing, stuff, something, anything, everything.
C34_NoBlankOrGenericName ==
    \A name \in NodeNames :
        /\ Strip(name) # ""
        /\ Lower(name) \notin generic_names

(***************************************************************************)
(* Two threads in GraphManager._demo_create_or_update_node                 *)
(***************************************************************************)

MaxWriterNodes == 3

Writers == {1, 2}

WriterNames == {"User", "Guitar"}

WriterPropertyMaps == {EmptyMap, [level |-> "v1"], [name |-> "User"]}

\* A thread: where it is in the method (idle: outside it; scan: in the
\* for loop, about to look at the i-th dictionary; append: past the loop),
\* and its arguments
Writer(pc, name, node_type, properties, i) ==
    [pc |-> pc, name |-> name, node_type |-> node_type,
     properties |-> properties, i |-> i]

IdleWriter == Writer("idle", "", "", EmptyMap, 0)

\* single: the threads call the method one at a time
WriterState(single, threads) ==
    [op |-> "demo_create_or_update_node", single |-> single,
     threads |-> threads]

InitWriters ==
    /\ driver = connect(FALSE).driver
    /\ nodes = connect(FALSE).nodes
    /\ edges = connect(FALSE).edges
    /\ demo_nodes = connect(FALSE).demo_nodes
    /\ demo_relationships = connect(FALSE).demo_relationships
    /\ \E single \in BOOLEAN :
          last = WriterState(single, [t \in Writers |-> IdleWriter])

Running == {t \in Writers : last.threads[t].pc # "idle"}

\* A thread enters the method
WriterCall(t) ==
    /\ last.threads[t].pc = "idle"
    /\ last.single => Running = {}
    /\ Len(demo_nodes) + Cardinality(Running) < MaxWriterNodes
    /\ \E name \in WriterNames, properties \in WriterPropertyMaps :
          last' = [last EXCEPT !.threads[t] =
                      Writer("scan", name, "Skill", properties, 1)]
    /\ UNCHANGED <<driver, nodes, edges, demo_nodes, demo_relationships>>

\* One iteration of the loop: the dictionary with the name is updated and
\* the method returns; another is passed
WriterLook(t) ==
    LET w == last.threads[t]
    IN  /\ w.pc = "scan"
        /\ w.i <= Len(demo_nodes)
        /\ IF HasName(demo_nodes[w.i], w.name)
           THEN /\ demo_nodes' =
                     [demo_nodes EXCEPT ![w.i] =
                         Merge(@, SetKey(Merge(("type" :> w.node_type),
                                               w.properties),
                                         "updated_at", Ts))]
                /\ last' = [last EXCEPT !.threads[t] = IdleWriter]
           ELSE /\ demo_nodes' = demo_nodes
                /\ last' = [last EXCEPT !.threads[t].i = w.i + 1]
        /\ UNCHANGED <<driver, nodes, edges, demo_relationships>>

\* The loop ends: no dictionary had the name
WriterPast(t) ==
    /\ last.threads[t].pc = "scan"
    /\ last.threads[t].i > Len(demo_nodes)
    /\ last' = [last EXCEPT !.threads[t].pc = "append"]
    /\ UNCHANGED <<driver, nodes, edges, demo_nodes, demo_relationships>>

\* self._demo_nodes.append(...)
WriterAppend(t) ==
    LET w == last.threads[t]
    IN  /\ w.pc = "append"
        /\ demo_nodes' =
              Append(demo_nodes,
                     SetKey(Merge(("name" :> w.name)
                                  @@ ("type" :> w.node_type), w.properties),
                            "created_at", Ts))
        /\ last' = [last EXCEPT !.threads[t] = IdleWriter]
        /\ UNCHANGED <<driver, nodes, edges, demo_relationships>>

NextWriters ==
    \/ \E t \in Writers : WriterCall(t)
    \/ \E t \in Writers : WriterLook(t)
    \/ \E t \in Writers : WriterPast(t)
    \/ \E t \in Writers : WriterAppend(t)

SpecWriters == InitWriters /\ [][NextWriters]_vars

(* C35 *)

OneNodePerName ==
    \A i, j \in DOMAIN demo_nodes :
        (/\ i # j
         /\ "name" \in DOMAIN demo_nodes[i]
         /\ "name" \in DOMAIN demo_nodes[j])
        => demo_nodes[i]["name"] # demo_nodes[j]["name"]

\* C35: in demo mode, when the threads call create_or_update_node one at a
\* time, no two nodes have the same name.  (Two calls for an absent name
\* that interleave between the loop and the append leave two nodes of the
\* name: TwoNodesAfterRace is reachable.)
C35_SingleWriterOneNodePerName ==
    last.single => OneNodePerName

\* Two interleaved calls, neither with a "name" key in its property map,
\* have left two nodes of one name
TwoNodesAfterRace ==
    /\ ~last.single
    /\ Running = {}
    /\ Len(demo_nodes) = 2
    /\ ~OneNodePerName
    /\ \A i \in DOMAIN demo_nodes : demo_nodes[i]["name"] = "Guitar"

(* C36 *)

\* The rows of a path form a chain from the entity: each row is a
\* relationship of the entity the row before it leads to
RECURSIVE Chained(_, _, _)
Chained(path, i, entity) ==
    IF i > Len(path) THEN TRUE
    ELSE /\ path[i] \in RelationshipRows(Store, entity)
         /\ Chained(path, i + 1, path[i].target_name)

\* C36: each result of find_related_entities records a path whose length
\* is its depth, whose relationships form a chain from the start entity to
\* the entity of the result, and whose last relationship has the type the
\* result records.
C36_PathToEntity ==
    \A i \in DOMAIN last.related_entities :
        LET found == last.related_entities[i]
        IN  /\ Len(found.path) = found.depth
            /\ found.depth >= 1
            /\ Chained(found.path, 1, last.entity_name)
            /\ found.path[Len(found.path)].target_name = found.entity
            /\ found.path[Len(found.path)].type = found.relationship_type

\* The traversal has returned an entity two relationships from the start
C36_Witness ==
    /\ last.pc = "done"
    /\ \E i \in DOMAIN last.related_entities :
          /\ last.related_entities[i].depth = 2
          /\ last.related_entities[i].path[1].target_name
               # last.related_entities[i].entity

(* C37 *)

\* The string-valued properties of a node other than its name and type
StringProperties(node) ==
    {key \in DOMAIN node \ {"name", "type"} : IsShortString(node[key])}

\* C37: the text built for a node that get_all_nodes returns consists of
\* the name, "Type: <type>" and one part "key: value" for each string-valued
\* property of the node.
C37_NodeText ==
    \A all_nodes \in get_all_nodes(Store) :
        \A k \in DOMAIN all_nodes :
            LET node == all_nodes[k]
                text == create_node_text(node)
            IN  /\ "name" \in DOMAIN node => text[1] = node["name"]
                /\ "type" \in DOMAIN node
                   => \E i \in DOMAIN text : text[i] = "Type: " \o node["type"]
                /\ \A key \in StringProperties(node) :
                      \E i \in DOMAIN text :
                          text[i] = key \o ": " \o node[key]
                /\ Len(text) = Cardinality(DOMAIN node \cap {"name", "type"})
                               + Cardinality(StringProperties(node))

(***************************************************************************)
(* find_related_entities while nodes are deleted                           *)
(***************************************************************************)

MaxRaceDepth == 2

\* Three entities in a chain, a cycle, and two paths to one entity
RaceGraphs ==
    {[nodes |-> [i \in 1..3 |-> GraphNodes[i]], edges |-> es] :
        es \in SUBSET {Edge(1, 2, "KNOWS"), Edge(2, 3, "KNOWS"),
                       Edge(1, 3, "LIKES"), Edge(3, 1, "KNOWS")}}

StartRace ==
    /\ last.pc = "idle"
    /\ \E g \in RaceGraphs :
          /\ nodes' = (IF driver THEN g.nodes ELSE EmptyMap)
          /\ edges' = (IF driver THEN g.edges ELSE {})
    /\ \E entity_name \in {"User", "Guitar"}, max_depth \in 0..MaxRaceDepth :
          last' = Traversal(entity_name, max_depth,
                            <<[entity |-> entity_name, depth |-> 0,
                               path |-> <<>>]>>,
                            {}, <<>>, "loop")
    /\ UNCHANGED <<driver, demo_nodes, demo_relationships>>

\* delete_node by another caller, between two reads of the traversal
DeleteDuringTraversal ==
    /\ last.pc = "loop"
    /\ \E name \in Names(Store) :
          LET r == delete_node(Store, name)
          IN  /\ nodes' = r.s.nodes
              /\ edges' = r.s.edges
    /\ UNCHANGED <<driver, demo_nodes, demo_relationships, last>>

NextRace ==
    \/ StartRace
    \/ Skip
    \/ Visit
    \/ Return
    \/ DeleteDuringTraversal

SpecRace ==
    InitRetrieve /\ [][NextRace]_vars /\ WF_vars(Skip \/ Visit \/ Return)

(* C38 *)

\* The names of the nodes joined by an edge, in either direction, to a node
\* of the name
Neighbours(name) ==
    {nodes[e.dst]["name"] : e \in {x \in edges : x.src \in Matching(Store, name)}}
    \cup
    {nodes[e.src]["name"] : e \in {x \in edges : x.dst \in Matching(Store, name)}}

\* C38: when nodes are deleted while find_related_entities runs, the call
\* still returns, and every entity it records in a pass of its loop was, when
\* the relationships of the visited entity were read, a neighbour of that
\* entity.
C38_RaceWithDelete ==
    /\ [][\A i \in DOMAIN last'.related_entities :
             i > Len(last.related_entities)
             => /\ last.pc = "loop"
                /\ last.queue # <<>>
                /\ last'.related_entities[i].entity
                     \in Neighbours(Head(last.queue).entity)]_vars
    /\ (last.pc = "loop") ~> (last.pc = "done")

\* The call has returned an entity whose node was deleted while it ran
C38_Witness ==
    /\ last.pc = "done"
    /\ \E i \in DOMAIN last.related_entities :
          last.related_entities[i].entity \notin Names(Store)

(* C39 *)

\* An extraction with one relationship and no entity, executed while the
\* backend raises in the second call: in an UPDATE, the re-create
ReplaceRuns ==
    {[lists |-> [entities |-> <<>>, relationships |-> l.relationships],
      fault |-> 2] : l \in FaultedLists}

\* C39: when an execution returns success false with both counts 0, the
\* graph is as it was before the execution, also when a candidate check or
\* a store call failed midway.
C39_FailedOutcomeNoMutation ==
    \A intent \in FailingIntents, run \in FailingRuns \cup ReplaceRuns :
        \A o \in execute_parsed_conversation(Faulted(Store, run),
                                             RunOf(intent, run)) :
            (/\ ~o.result.success
             /\ o.result.entities_processed = 0
             /\ o.result.relationships_processed = 0)
            => /\ o.s.nodes = nodes
               /\ o.s.edges = edges
               /\ o.s.demo_nodes = demo_nodes
               /\ o.s.demo_relationships = demo_relationships

(* C40 *)

\* C40: find_related_entities never returns the start entity, and returns
\* each entity name at most once, also when an entity is reached from the
\* start along two paths.
C40_EachEntityOnce ==
    last.pc = "done" =>
        /\ \A i \in DOMAIN last.related_entities :
              last.related_entities[i].entity # last.entity_name
        /\ \A i, j \in DOMAIN last.related_entities :
              i # j => last.related_entities[i].entity
                       # last.related_entities[j].entity

====
